---- MODULE Spec2Model ----
(***************************************************************************)
(* RKeyboard: the Device Event Bridge (src/src/events.js), the Key Catcher *)
(* (key_catcher.js, kept as src/unnamed/part_006) and the Keyboard Factory *)
(* (src/src/keyboard.js), as one state machine.                            *)
(*                                                                         *)
(* JavaScript is single threaded: every raw key signal, every timer firing *)
(* and every API call runs to completion, so each is one action.  An       *)
(* exception (TypeError) thrown inside a handler unwinds the whole handler:*)
(* the state changes made before the throw are kept, the rest is skipped.  *)
(* The operators below thread a record s of the whole program state, whose *)
(* field thrown tells that an exception is unwinding.                      *)
(***************************************************************************)
EXTENDS Integers, Sequences, FiniteSets, TLC

\* ------------------------------------------------------------------ bounds
\* keys physically held at the same time
MaxHeld == 2
\* cap of keyObj.currentPressInterval, which the code never resets
MaxPressCount == 2
\* most entries of an array given as press option
MaxStages == 3

\* ------------------------------------------------------------- key map
\* three entries of config.KEY_MAP: one name with one code, one with two
KEY_MAP == (13 :> "Enter") @@ (91 :> "Window") @@ (92 :> "Window")
\* Object.keys(keyMap): integer keys in ascending order
CodeSeq == <<13, 91, 92>>
MappedCodes == DOMAIN KEY_MAP
\* the raw signals also carry one code that is not in the key map
RawCodes == MappedCodes \cup {7}
Names == {"Enter", "Window"}

\* config.js; keyboard.js:14-17 takes the defaults from an undeclared name
\* (config), modelled as the imported defaultConfig
DEFAULT_PROPAGATE_VALUE == TRUE
DEFAULT_COMBINE_VALUE == TRUE
DEFAULT_REEMIT_VALUE == 500

\* one grouping of config.GROUPINGS; none of the stock groupings has a member
\* in the three entries of the key map
GROUPINGS == [Directions |-> <<"Up", "Down", "Left", "Right">>]
\* a grouping of the three entries, as an application gives it in
\* opt.groupings or assigns it to Keyboard.GROUPINGS
PairGroupings == [Pair |-> <<"Enter", "Window">>]

\* ------------------------------------------------------------- helpers
isSet(x) == x # "unset"

InSeq(x, q) == \E j \in 1..Len(q) : q[j] = x

\* Array.prototype.indexOf, 1-based, 0 when absent
RECURSIVE IndexFrom(_, _, _)
IndexFrom(q, x, j) ==
  IF j > Len(q) THEN 0 ELSE IF q[j] = x THEN j ELSE IndexFrom(q, x, j + 1)
IndexOf(q, x) == IndexFrom(q, x, 1)

RemoveAt(q, j) == SubSeq(q, 1, j - 1) \o SubSeq(q, j + 1, Len(q))

\* array.splice(indexOf, 1) with the 0-based result of indexOf: a result of
\* -1 (absent) removes the LAST element
SpliceIndexOf(q, x) ==
  IF Len(q) = 0 THEN q
  ELSE IF IndexOf(q, x) = 0 THEN RemoveAt(q, Len(q))
  ELSE RemoveAt(q, IndexOf(q, x))

NoDup(q) == \A a, b \in 1..Len(q) : q[a] = q[b] => a = b

Undef == [def |-> FALSE, v |-> <<>>]
Arr(q) == [def |-> TRUE, v |-> q]

\* ------------------------------------------------------------- options
Calls == {"a", "b", "c", "d"}
Insts == {"kb1", "kb2"}

\* a numeric option that may be absent
NoNum == [set |-> FALSE, v |-> 0]
Num(x) == [set |-> TRUE, v |-> x]

\* one press stage {after, interval}; interval is a numeric option
Stage(after, interval) == [after |-> after, interval |-> interval]

\* the arguments of one listen call: key names, then the options object
\* what the application's callback does when it is given an event: nothing,
\* this.stopPropagation(), or a call of the function listen returned to call
\* `to`
NoReact == [on |-> "", do |-> "", to |-> ""]

Opt(keys, hasPress, press, propagate, reEmit, combine) ==
  [inst |-> "kb1", keys |-> keys, hasPress |-> hasPress, press |-> press,
   propagate |-> propagate, reEmit |-> reEmit, combine |-> combine,
   react |-> NoReact]

\* the same call with a callback that acts on the event `on`
Reacting(o, on, do, to) ==
  [o EXCEPT !.react = [on |-> on, do |-> do, to |-> to]]

\* the same call made through another instance
On(i, o) == [o EXCEPT !.inst = i]

\* a call that is never made in a scenario
NoCall == Opt(<<>>, FALSE, <<>>, "unset", NoNum, "unset")

\* the options given to createKeyboard
KbOpt(propagate, reEmit, combine) ==
  [propagate |-> propagate, reEmit |-> reEmit, combine |-> combine]

VARIABLES
  KEYCODES_PUSHED,      \* events.js: the pressed-keycode ledger
  keyDownCallbacks,     \* events.js: bridge callbacks, in registration order
  keyUpCallbacks,
  layers,               \* key catcher: per instance and key name, layers of calls
  keyCodesMaintained,   \* key catcher: per key name, codes held for re-emit
  reEmitTimeoutIds,     \* key catcher: per key name, the re-emit timer
  timers,               \* the timer table of the page: per instance and key
                        \*   name, the re-emit timers that are pending
  keysObj,              \* keyboard.js: per listen call, per code, the key state
  activePresses,        \* keyboard.js: per instance, per key name
  status,               \* per listen call: new, bound, failed, unbound
  cfg,                  \* the arguments of every listen call (fixed)
  kbOpt,                \* the arguments of every createKeyboard call (fixed)
  config,               \* config.js: the registry object the modules share
  instances,            \* per instance, what createKeyboard took from the
                        \*   registry when it ran
  handlers,             \* named-callback adapter: the handler fields given
                        \*   in the options of a listen call (fixed)
  invoked,              \* named-callback adapter: the last event and the
                        \*   handlers it invoked, in order
  rx,                   \* push-stream adapter: the outcome of the last call
                        \*   of the function create() returned
  pressOpt,             \* the array given as press option (fixed)
  pressIntervals,       \* what _sortPressIntervals made of it
  last,                 \* history: per call and code, "down" after a push or
                        \*   press event was delivered, "up" otherwise
  downs,                \* history: per code, bridge keydown dispatches since
                        \*   the last keyup of the code, raw or made by blur
  unreleased,           \* history: a code for which the blur handler has
                        \*   just delivered a release (blur was the last
                        \*   operation), 0 if none
  heldSince,            \* history: per call, the codes held without
                        \*   interruption since the call registered
  rowner,               \* history: per key name, the call whose registration
                        \*   armed the pending re-emit timer
  lapsed,               \* history: per call, the codes held at registration
                        \*   and released before the call's re-emit timer fired
  restored,             \* history: <<call, key name>> that regained the
                        \*   topmost layer when a non-propagating call unbound
  freed,                \* history: the calls, still bound, that were bound
                        \*   through an instance when close() was called on it
  upSince               \* history: per instance and key name, the codes
                        \*   released since the pending re-emit timer was armed

progVars == <<KEYCODES_PUSHED, keyDownCallbacks, keyUpCallbacks, layers,
              keyCodesMaintained, reEmitTimeoutIds, timers, keysObj,
              activePresses, status>>

\* the program state as one record, threaded through the handlers; log
\* collects what one operation invokes and delivers, in order
State ==
  [KEYCODES_PUSHED |-> KEYCODES_PUSHED, keyDownCallbacks |-> keyDownCallbacks,
   keyUpCallbacks |-> keyUpCallbacks, layers |-> layers,
   keyCodesMaintained |-> keyCodesMaintained,
   reEmitTimeoutIds |-> reEmitTimeoutIds, timers |-> timers,
   keysObj |-> keysObj,
   activePresses |-> activePresses, status |-> status,
   downs |-> downs, log |-> <<>>, thrown |-> FALSE, stop |-> FALSE,
   armed |-> {}]

Emit(s, kind, c, k, n) ==
  [s EXCEPT !.log = Append(@, [kind |-> kind, c |-> c, k |-> k, n |-> n])]

Throw(s) == [s EXCEPT !.thrown = TRUE]

\* ------------------------------------------------- keyboard.js: options
\* a boolean value as an option value
Bool(b) == IF b THEN "true" ELSE "false"

\* the Key Catcher's way of taking a default, a falsy value does not count
defaultPropagateOr(i) ==
  IF kbOpt[i].propagate = "true" THEN "true" ELSE Bool(DEFAULT_PROPAGATE_VALUE)

\* createKeyboard: isSet(opt.x) ? opt.x : DEFAULT_X
defaultPropagate(i) ==
  IF isSet(kbOpt[i].propagate) THEN kbOpt[i].propagate
  ELSE Bool(DEFAULT_PROPAGATE_VALUE)

defaultCombine(i) ==
  IF isSet(kbOpt[i].combine) THEN kbOpt[i].combine
  ELSE Bool(DEFAULT_COMBINE_VALUE)

\* keyboard.js reads DEFAULT_REEMIT_TIMEOUT, which config.js does not define:
\* without a creation value the instance default is undefined
defaultReemit(i) == IF kbOpt[i].reEmit.set THEN kbOpt[i].reEmit ELSE NoNum

\* KeyCatcher(opt): opt.propagate || DEFAULT_PROPAGATE_VALUE and
\* opt.reEmit || DEFAULT_REEMIT_VALUE, with the instance defaults as opt
kcDefaultPropagate(i) ==
  IF defaultPropagate(i) = "true" THEN "true"
  ELSE Bool(DEFAULT_PROPAGATE_VALUE)

kcDefaultReemit(i) ==
  IF defaultReemit(i).set /\ defaultReemit(i).v # 0 THEN defaultReemit(i)
  ELSE Num(DEFAULT_REEMIT_VALUE)

\* listen: the destructuring defaults apply to undefined values only
shouldPropagate(c) ==
  IF cfg[c].propagate # "unset" THEN cfg[c].propagate
  ELSE defaultPropagate(cfg[c].inst)

shouldCombineKeys(c) ==
  IF cfg[c].combine # "unset" THEN cfg[c].combine
  ELSE defaultCombine(cfg[c].inst)

reEmitOption(c) ==
  IF cfg[c].reEmit.set THEN cfg[c].reEmit ELSE defaultReemit(cfg[c].inst)

\* kc.register(keys, {propagate, reEmit}, onEvent): the Key Catcher's
\* defaults apply to undefined values only
EffPropagate(c) ==
  (IF shouldPropagate(c) # "unset" THEN shouldPropagate(c)
   ELSE kcDefaultPropagate(cfg[c].inst)) = "true"

\* if (!shouldCombineKeys)
EffCombine(c) == shouldCombineKeys(c) = "true"

EffReEmit(c) ==
  (IF reEmitOption(c).set THEN reEmitOption(c)
   ELSE kcDefaultReemit(cfg[c].inst)).v

\* a grouping name standing for the first member of the grouping only
firstMembers(groupings, names, j) ==
  [x \in 1..Len(names) |->
     IF names[x] \in DOMAIN groupings THEN groupings[names[x]][1]
     ELSE names[x]]

\* _processArguments: a name that is a key of groupings stands for the
\* members of the grouping, any other name for itself
RECURSIVE getKeysFromNames(_, _, _)
getKeysFromNames(groupings, names, j) ==
  IF j > Len(names) THEN <<>>
  ELSE (IF names[j] \in DOMAIN groupings THEN groupings[names[j]]
        ELSE <<names[j]>>) \o getKeysFromNames(groupings, names, j + 1)

\* the key names of listen call c
Keys(c) == getKeysFromNames(instances[cfg[c].inst].groupings, cfg[c].keys, 1)

\* Object.keys(keysObj): the codes of the call's key names, ascending
CodesOf(c) ==
  SelectSeq(CodeSeq, LAMBDA k : InSeq(KEY_MAP[k], Keys(c)))

\* timeouts: the stages whose setTimeout is pending; interval: the stored
\* setInterval handle (the stage that made it, 0 for null); running: the
\* setInterval timers of the key that run, whether or not a handle is kept
NewKeyObj == [isPushed |-> FALSE, timeouts |-> {}, interval |-> 0,
              running |-> {}, currentPressInterval |-> 0]

ApUndef == [kind |-> "undef", arr |-> <<>>]
ApArr(q) == [kind |-> "arr", arr |-> q]
\* the Number that Array.prototype.push returns
ApNum == [kind |-> "num", arr |-> <<>>]

\* ------------------------------------------- keyboard.js: per call state
clearKeyTimeouts(s, c, k) ==
  LET i == cfg[c].inst
      n == KEY_MAP[k]
      s1 == [s EXCEPT !.keysObj[c][k].timeouts = {},
                      !.keysObj[c][k].running = @ \ {s.keysObj[c][k].interval},
                      !.keysObj[c][k].interval = 0]
      a == s1.activePresses[i][n]
  IN IF a.kind = "undef" THEN s1
     ELSE IF a.kind = "num" THEN Throw(s1)  \* indexOf is not a function
     ELSE LET rest == SpliceIndexOf(a.arr, <<c, k>>)
          IN [s1 EXCEPT !.activePresses[i][n] =
                IF rest = <<>> THEN ApUndef ELSE ApArr(rest)]

startPressEvents(s, c, k) ==
  LET i == cfg[c].inst
      n == KEY_MAP[k]
      a == s.activePresses[i][n]
  IN IF ~cfg[c].hasPress THEN s
     ELSE IF a.kind = "num" THEN Throw(s)   \* push is not a function
     ELSE [s EXCEPT
             !.activePresses[i][n] =
                IF a.kind = "undef" THEN ApArr(<<<<c, k>>>>) ELSE ApNum,
             !.keysObj[c][k].timeouts = @ \cup (1..Len(cfg[c].press))]

\* the function the listen call returns, defined with listen below
RECURSIVE unsubscribe(_, _)

\* callbackNext.call(ctx, {keyName, event, pressInterval, timepress}): the
\* application's callback, with the context's stopPropagation at hand
callbackNext(s, c, event, k, n) ==
  LET s1 == Emit(s, event, c, k, n)
      r == cfg[c].react
  IN IF r.on # event THEN s1
     ELSE IF r.do = "stop"
          THEN Emit([s1 EXCEPT !.stop = TRUE], "stop", c, k, 0)
     ELSE IF r.do = "unbind" /\ s1.status[r.to] = "bound"
          THEN unsubscribe(Emit(s1, "unbind", r.to, k, 0), r.to)
     ELSE s1

\* a faulty onDownEvent, without the ledger test of keyboard.js:388-393
onDownEventAnyCode(s, c, k) ==
  IF s.keysObj[c][k].isPushed THEN s
  ELSE LET s1 == startPressEvents(s, c, k)
       IN IF s1.thrown THEN s1
          ELSE callbackNext([s1 EXCEPT !.keysObj[c][k].isPushed = TRUE],
                            c, "push", k, 0)

onDownEvent(s, c, k) ==
  IF s.keysObj[c][k].isPushed THEN s
  ELSE IF Len(s.KEYCODES_PUSHED) = 0
          \/ s.KEYCODES_PUSHED[Len(s.KEYCODES_PUSHED)] # k THEN s
  ELSE LET s1 == startPressEvents(s, c, k)
       IN IF s1.thrown THEN s1
          ELSE callbackNext([s1 EXCEPT !.keysObj[c][k].isPushed = TRUE],
                            c, "push", k, 0)

\* a faulty onUpEvent, without the isPushed test of keyboard.js:421
onUpEventUnguarded(s, c, k) ==
  LET s1 == clearKeyTimeouts(s, c, k)
  IN IF s1.thrown THEN s1
     ELSE [Emit(s1, "release", c, k, s1.keysObj[c][k].currentPressInterval)
             EXCEPT !.keysObj[c][k].isPushed = FALSE]

onUpEvent(s, c, k) ==
  IF ~s.keysObj[c][k].isPushed THEN s
  ELSE LET s1 == clearKeyTimeouts(s, c, k)
       IN IF s1.thrown THEN s1
          ELSE LET s2 == callbackNext(s1, c, "release", k,
                                      s1.keysObj[c][k].currentPressInterval)
               IN IF s2.thrown THEN s2
                  ELSE [s2 EXCEPT !.keysObj[c][k].isPushed = FALSE]

\* the dispatch callback a listen call registers with the Key Catcher
onEvent(s, c, type, k) ==
  LET s1 == Emit(s, type, c, k, 0)
  IN IF ~InSeq(KEY_MAP[k], Keys(c)) THEN s1
     ELSE IF type = "keydown" THEN onDownEvent(s1, c, k)
     ELSE onUpEvent(s1, c, k)

RECURSIVE clearAll(_, _, _, _)
clearAll(s, c, codes, j) ==
  IF j > Len(codes) \/ s.thrown THEN s
  ELSE clearAll(clearKeyTimeouts(s, c, codes[j]), c, codes, j + 1)

onAnyKeyDown(s, c) == clearAll(s, c, CodesOf(c), 1)

\* ------------------------------------------------------- key catcher
\* a faulty getActiveCatchers, which takes the first layer, not the last
getActiveCatchersFirst(s, i, n) ==
  IF Len(s.layers[i][n]) = 0 THEN <<>> ELSE s.layers[i][n][1]

getActiveCatchers(s, i, n) ==
  IF Len(s.layers[i][n]) = 0 THEN <<>>
  ELSE s.layers[i][n][Len(s.layers[i][n])]

RECURSIVE triggerLoop(_, _, _, _, _, _, _, _)
triggerLoop(s, i, type, n, k, callbacks, j, initial) ==
  IF j < 1 \/ s.thrown THEN s
  ELSE IF initial \/ InSeq(callbacks[j], getActiveCatchers(s, i, n))
       THEN LET s1 == onEvent(s, callbacks[j], type, k)
            IN \* stopPropagation: i = -1
               IF s1.stop THEN [s1 EXCEPT !.stop = FALSE]
               ELSE triggerLoop(s1, i, type, n, k, callbacks, j - 1, FALSE)
       ELSE triggerLoop(s, i, type, n, k, callbacks, j - 1, initial)

triggerCatchers(s, i, type, n, k) ==
  LET callbacks == getActiveCatchers(s, i, n)
  IN triggerLoop(s, i, type, n, k, callbacks, Len(callbacks), TRUE)

kcOnDownEvent(s, i, k) == triggerCatchers(s, i, "keydown", KEY_MAP[k], k)

keyUpCallback(s, i, k) ==
  LET n == KEY_MAP[k]
      m == s.keyCodesMaintained[i][n]
      s1 == IF m.def /\ InSeq(k, m.v)
            THEN [s EXCEPT !.keyCodesMaintained[i][n] =
                    Arr(RemoveAt(m.v, IndexOf(m.v, k)))]
            ELSE s
  IN triggerCatchers(s1, i, "keyup", n, k)

\* ------------------------------------------------------------ events.js
KcDown(i) == [t |-> "down", o |-> i]
KcUp(i) == [t |-> "up", o |-> i]
AnyDown(c) == [t |-> "any", o |-> c]

\* every callback belongs to one listen scope, so the scope's local list is
\* the callback's presence in the global list
addKeyDownListener(s, cb) ==
  IF InSeq(cb, s.keyDownCallbacks) THEN s
  ELSE [s EXCEPT !.keyDownCallbacks = Append(@, cb)]

addKeyUpListener(s, cb) ==
  IF InSeq(cb, s.keyUpCallbacks) THEN s
  ELSE [s EXCEPT !.keyUpCallbacks = Append(@, cb)]

\* a removal that leaves the callback registered
keepListener(s, cb) == s

removeKeyDownListener(s, cb) ==
  IF ~InSeq(cb, s.keyDownCallbacks) THEN s
  ELSE [s EXCEPT !.keyDownCallbacks = RemoveAt(@, IndexOf(@, cb))]

removeKeyUpListener(s, cb) ==
  IF ~InSeq(cb, s.keyUpCallbacks) THEN s
  ELSE [s EXCEPT !.keyUpCallbacks = RemoveAt(@, IndexOf(@, cb))]

\* one bridge callback called with a key code
invoke(s, cb, k) ==
  LET s1 == Emit(s, "bridge", cb.o, k, 0)
  IN IF cb.t = "down" THEN kcOnDownEvent(s1, cb.o, k)
     ELSE IF cb.t = "up" THEN keyUpCallback(s1, cb.o, k)
     ELSE onAnyKeyDown(s1, cb.o)

\* keyDownCallbacks.forEach: the indexes below the initial length that the
\* array still has when their turn comes
RECURSIVE downLoop(_, _, _, _)
downLoop(s, k, j, len0) ==
  IF j > len0 \/ j > Len(s.keyDownCallbacks) \/ s.thrown THEN s
  ELSE downLoop(IF k \in MappedCodes
                THEN invoke(s, s.keyDownCallbacks[j], k) ELSE s,
                k, j + 1, len0)

Min2(x) == IF x > 2 THEN 2 ELSE x

triggerKeyDownEvent(s, k) ==
  downLoop([s EXCEPT !.downs[k] = Min2(@ + 1)], k, 1, Len(s.keyDownCallbacks))

RECURSIVE upLoop(_, _, _, _)
upLoop(s, k, j, len0) ==
  IF j > len0 \/ j > Len(s.keyUpCallbacks) \/ s.thrown THEN s
  ELSE upLoop(IF k \in MappedCodes
              THEN invoke(s, s.keyUpCallbacks[j], k) ELSE s,
              k, j + 1, len0)

triggerKeyUpEvent(s, k) == upLoop(s, k, 1, Len(s.keyUpCallbacks))

isKeyPushed(s, k) == InSeq(k, s.KEYCODES_PUSHED)

addKeyPushedToArray(s, k) == [s EXCEPT !.KEYCODES_PUSHED = Append(@, k)]

\* removes the last occurrence
RECURSIVE LastIndexFrom(_, _, _)
LastIndexFrom(q, x, j) ==
  IF j < 1 THEN 0 ELSE IF q[j] = x THEN j ELSE LastIndexFrom(q, x, j - 1)

removeKeyPushedFromArray(s, k) ==
  LET j == LastIndexFrom(s.KEYCODES_PUSHED, k, Len(s.KEYCODES_PUSHED))
  IN IF j = 0 THEN s ELSE [s EXCEPT !.KEYCODES_PUSHED = RemoveAt(@, j)]

\* a faulty onKeyDown, without the isKeyPushed test of events.js:263
onKeyDownRepeated(s, k) ==
  triggerKeyDownEvent(addKeyPushedToArray(s, k), k)

onKeyDown(s, k) ==
  IF isKeyPushed(s, k) THEN s
  ELSE triggerKeyDownEvent(addKeyPushedToArray(s, k), k)

onKeyUp(s, k) ==
  triggerKeyUpEvent(removeKeyPushedFromArray([s EXCEPT !.downs[k] = 0], k), k)

\* window blur: KEYCODES_PUSHED.forEach(onKeyUp) on the array onKeyUp splices
RECURSIVE blurLoop(_, _, _)
blurLoop(s, j, len0) ==
  IF j > len0 \/ j > Len(s.KEYCODES_PUSHED) \/ s.thrown THEN s
  ELSE blurLoop(onKeyUp(s, s.KEYCODES_PUSHED[j]), j + 1, len0)

onBlur(s) == blurLoop(s, 1, Len(s.KEYCODES_PUSHED))

\* ------------------------------------------- key catcher: register
\* the codes of key name n in the ledger, oldest first
HeldCodes(s, n) ==
  SelectSeq(s.KEYCODES_PUSHED, LAMBDA x : x \in MappedCodes /\ KEY_MAP[x] = n)

NoLayers(s, i) == \A n \in Names : Len(s.layers[i][n]) = 0

\* reEmitTimeoutIds[keyName]: "none" is undefined or 0; "reg" and "unreg" are
\* the id of a pending timer, armed by register or by unregister; "done" is
\* the id of a timer that has fired or was cleared
\* a clearTimeout that cancels nothing
keepTimeout(s, i, n) == s

\* clearTimeout(reEmitTimeoutIds[keyName]): cancels the timer if it is still
\* pending, and does nothing with the id of a timer that fired or was
\* cancelled
clearTimeout(s, i, n) ==
  IF s.reEmitTimeoutIds[i][n] \in {"reg", "unreg"}
  THEN [s EXCEPT !.timers[i][n] = @ - 1]
  ELSE s

\* reEmitTimeoutIds[keyName] = setTimeout(...)
setTimeout(s, i, n, id) ==
  [s EXCEPT !.reEmitTimeoutIds[i][n] = id, !.timers[i][n] = @ + 1,
            !.armed = @ \cup {<<i, n>>}]

registerKeyListener(s, i, c, n, propagate, reEmit) ==
  LET s1 == IF NoLayers(s, i)
            THEN addKeyUpListener(addKeyDownListener(s, KcDown(i)), KcUp(i))
            ELSE s
      s2 == IF s1.reEmitTimeoutIds[i][n] # "none"
            THEN [clearTimeout(s1, i, n)
                    EXCEPT !.reEmitTimeoutIds[i][n] = "done",
                           !.keyCodesMaintained[i][n] = Arr(<<>>)]
            ELSE s1
      held == HeldCodes(s2, n)
      m == s2.keyCodesMaintained[i][n]
      m1 == IF held = <<>> THEN m ELSE Arr(m.v \o held)
      s2m == [s2 EXCEPT !.keyCodesMaintained[i][n] = m1]
      s3 == IF reEmit >= 0 /\ Len(s2.KEYCODES_PUSHED) > 0
            THEN IF m1.def /\ Len(m1.v) > 0
                 THEN setTimeout(s2m, i, n, "reg") ELSE s2m
            ELSE s2
      keyArr == s3.layers[i][n]
  IN [s3 EXCEPT !.layers[i][n] =
        IF Len(keyArr) = 0 THEN <<<<c>>>>
        ELSE IF propagate
             THEN [keyArr EXCEPT ![Len(keyArr)] = Append(@, c)]
             ELSE Append(keyArr, <<c>>)]

RECURSIVE registerAll(_, _, _, _, _, _)
registerAll(s, c, names, j, propagate, reEmit) ==
  IF j > Len(names) THEN s
  ELSE registerAll(registerKeyListener(s, cfg[c].inst, c, names[j],
                                       propagate, reEmit),
                   c, names, j + 1, propagate, reEmit)

register(s, c, propagate, reEmit) ==
  registerAll(s, c, Keys(c), 1, propagate, reEmit)

\* ------------------------------------------- key catcher: unregister
\* the topmost layer that holds c, 0 if none
RECURSIVE LayerOf(_, _, _)
LayerOf(keyArr, c, j) ==
  IF j < 1 THEN 0
  ELSE IF InSeq(c, keyArr[j]) THEN j ELSE LayerOf(keyArr, c, j - 1)

\* reEmitTimeouts.get(callback) >= 0: the WeakMap holds the reEmit value of
\* the callbacks registered with reEmit >= 0
WantsReEmit(c) == EffReEmit(c) >= 0

unregisterReEmit(s, i, n, callbackArray) ==
  LET s1 == [clearTimeout(s, i, n) EXCEPT !.reEmitTimeoutIds[i][n] = "none"]
      nextCallback == callbackArray[Len(callbackArray) - 1]
      held == HeldCodes(s1, n)
  IN IF Len(s1.KEYCODES_PUSHED) = 0 \/ Len(callbackArray) < 2 THEN s1
     ELSE IF ~WantsReEmit(nextCallback)
          THEN [s1 EXCEPT !.keyCodesMaintained[i][n] = Arr(<<>>)]
          ELSE LET s2 == [s1 EXCEPT !.keyCodesMaintained[i][n] = Arr(held)]
               IN IF Len(held) > 0 THEN setTimeout(s2, i, n, "unreg") ELSE s2

unregisterKeyListener(s, i, c, n) ==
  LET keyArr == s.layers[i][n]
      li == LayerOf(keyArr, c, Len(keyArr))
  IN IF li = 0 THEN s
     ELSE
       LET callbackArray == keyArr[li]
           indexOf == IndexOf(callbackArray, c)
           s1 == IF li = Len(keyArr) /\ indexOf = Len(callbackArray)
                 THEN unregisterReEmit(s, i, n, callbackArray)
                 ELSE s
           rest == RemoveAt(callbackArray, indexOf)
           s2 == [s1 EXCEPT !.layers[i][n] =
                    IF rest = <<>> THEN RemoveAt(keyArr, li)
                    ELSE [keyArr EXCEPT ![li] = rest]]
       IN IF rest = <<>> /\ NoLayers(s2, i)
          THEN removeKeyUpListener(removeKeyDownListener(s2, KcDown(i)),
                                   KcUp(i))
          ELSE s2

RECURSIVE unregisterAll(_, _, _, _)
unregisterAll(s, c, names, j) ==
  IF j > Len(names) THEN s
  ELSE unregisterAll(unregisterKeyListener(s, cfg[c].inst, c, names[j]),
                     c, names, j + 1)

unregister(s, c) == unregisterAll(s, c, Keys(c), 1)

\* ---------------------------------------------------- keyboard.js: listen
\* the listen call clears the presses of the key names it takes over
RECURSIVE clearActive(_, _, _, _)
clearActive(s, i, names, j) ==
  IF j > Len(names) \/ s.thrown THEN s
  ELSE LET a == s.activePresses[i][names[j]]
       IN IF a.kind = "undef" THEN clearActive(s, i, names, j + 1)
          ELSE IF a.kind = "num" THEN Throw(s)  \* forEach is not a function
          ELSE clearActive(clearKeyTimeouts(s, a.arr[1][1], a.arr[1][2]),
                           i, names, j + 1)

listen(s, c) ==
  LET s1 == IF ~EffCombine(c) THEN addKeyDownListener(s, AnyDown(c)) ELSE s
      s2 == IF ~EffPropagate(c)
            THEN clearActive(s1, cfg[c].inst, Keys(c), 1) ELSE s1
  IN IF s2.thrown THEN [s2 EXCEPT !.status[c] = "failed"]
     ELSE [register(s2, c, EffPropagate(c), EffReEmit(c))
             EXCEPT !.status[c] = "bound"]

\* the function listen returns
unsubscribe(s, c) ==
  LET s1 == IF ~EffCombine(c) THEN removeKeyDownListener(s, AnyDown(c)) ELSE s
      s2 == clearAll([s1 EXCEPT !.status[c] = "unbound"], c, CodesOf(c), 1)
  IN IF s2.thrown THEN s2 ELSE unregister(s2, c)

\* kc.close(): listener.close() of the Key Catcher's scope
close(s, i) == removeKeyUpListener(removeKeyDownListener(s, KcDown(i)), KcUp(i))

\* ------------------------------------------------------------- timers
RECURSIVE reEmitLoop(_, _, _, _, _)
reEmitLoop(s, i, n, j, len0) ==
  IF j > len0 \/ j > Len(s.keyCodesMaintained[i][n].v) \/ s.thrown THEN s
  ELSE reEmitLoop(kcOnDownEvent(s, i, s.keyCodesMaintained[i][n].v[j]),
                  i, n, j + 1, len0)

\* the timer armed by register; the one armed by unregister calls forEach on
\* the keyCodesMaintained object itself, which is not a function
reEmitTimeout(s, i, n) ==
  LET s1 == [s EXCEPT !.reEmitTimeoutIds[i][n] = "done",
                      !.timers[i][n] = @ - 1]
  IN IF s.reEmitTimeoutIds[i][n] = "unreg" THEN Throw(s1)
     ELSE IF ~s1.keyCodesMaintained[i][n].def THEN Throw(s1)
     ELSE LET s2 == reEmitLoop(s1, i, n, 1,
                               Len(s1.keyCodesMaintained[i][n].v))
          IN IF s2.thrown THEN s2
             ELSE [s2 EXCEPT !.keyCodesMaintained[i][n] = Undef]

\* timers armed together fire in the order of their delays
Earliest(c, k, st) ==
  /\ st \in keysObj[c][k].timeouts
  /\ \A o \in keysObj[c][k].timeouts :
       \/ cfg[c].press[o].after > cfg[c].press[st].after
       \/ cfg[c].press[o].after = cfg[c].press[st].after /\ o >= st

\* a faulty stage timeout, without the clearInterval of keyboard.js:339-341
pressTimeoutLeaky(s, c, k, st) ==
  LET n == s.keysObj[c][k].currentPressInterval + 1
  IN Emit([s EXCEPT !.keysObj[c][k].timeouts = @ \ {st},
                    !.keysObj[c][k].running =
                       @ \cup (IF cfg[c].press[st].interval.set
                               THEN {st} ELSE {}),
                    !.keysObj[c][k].interval =
                       IF cfg[c].press[st].interval.set THEN st ELSE 0,
                    !.keysObj[c][k].currentPressInterval = n],
          "press", c, k, n)

pressTimeout(s, c, k, st) ==
  LET n == s.keysObj[c][k].currentPressInterval + 1
  IN Emit([s EXCEPT !.keysObj[c][k].timeouts = @ \ {st},
                    !.keysObj[c][k].running =
                       (@ \ {s.keysObj[c][k].interval})
                       \cup (IF cfg[c].press[st].interval.set
                             THEN {st} ELSE {}),
                    !.keysObj[c][k].interval =
                       IF cfg[c].press[st].interval.set THEN st ELSE 0,
                    !.keysObj[c][k].currentPressInterval = n],
          "press", c, k, n)

sendPressEvent(s, c, k) ==
  Emit(s, "press", c, k, s.keysObj[c][k].currentPressInterval)

\* ------------------------------------------------------------ actions
\* ---- history
AppEvents == {"push", "press", "release"}

RECURSIVE FoldLast(_, _, _)
FoldLast(l, q, j) ==
  IF j > Len(q) THEN l
  ELSE FoldLast(IF q[j].kind \in AppEvents
                THEN [l EXCEPT ![q[j].c][q[j].k] =
                        IF q[j].kind = "release" THEN "up" ELSE "down"]
                ELSE l,
                q, j + 1)

SeqSet(q) == {q[j] : j \in 1..Len(q)}

TopLayer(L) == IF Len(L) = 0 THEN <<>> ELSE L[Len(L)]

Got(c, k) == last[c][k] = "down"

NextRowner(s, type, c) ==
  [i \in Insts |-> [n \in Names |->
     IF s.reEmitTimeoutIds[i][n] # "reg" THEN ""
     ELSE IF type = "listen" /\ ~s.thrown /\ cfg[c].inst = i
             /\ InSeq(n, Keys(c)) THEN c
     ELSE rowner[i][n]]]

NextHeldSince(s, type, c) ==
  [x \in Calls |->
     IF type = "listen" /\ x = c
     THEN IF s.thrown THEN {}
          ELSE {k \in SeqSet(CodesOf(c)) : InSeq(k, s.KEYCODES_PUSHED)}
     ELSE {k \in heldSince[x] \cap SeqSet(s.KEYCODES_PUSHED) :
             s.reEmitTimeoutIds[cfg[x].inst][KEY_MAP[k]] = "reg"
             /\ rowner[cfg[x].inst][KEY_MAP[k]] = x}]

NextLapsed(s, type, c) ==
  [x \in Calls |->
     IF type = "listen" /\ x = c THEN {}
     ELSE {k \in lapsed[x] \cup
                  {h \in heldSince[x] :
                     ~InSeq(h, s.KEYCODES_PUSHED) /\ ~Got(x, h)} :
             s.reEmitTimeoutIds[cfg[x].inst][KEY_MAP[k]] = "reg"
             /\ rowner[cfg[x].inst][KEY_MAP[k]] = x}]

NextRestored(s, type, c, k) ==
  LET kept == {r \in restored :
                 /\ InSeq(r[1], TopLayer(s.layers[cfg[r[1]].inst][r[2]]))
                 /\ s.status[r[1]] = "bound"
                 /\ ~(type = "keydown" /\ k \in MappedCodes
                      /\ ~InSeq(k, KEYCODES_PUSHED) /\ KEY_MAP[k] = r[2])}
      new == IF type = "unsubscribe" /\ ~EffPropagate(c)
             THEN {r \in Calls \X Names :
                     /\ InSeq(r[2], Keys(c))
                     /\ Len(layers[cfg[c].inst][r[2]]) >= 2
                     /\ TopLayer(layers[cfg[c].inst][r[2]]) = <<c>>
                     /\ LayerOf(s.layers[cfg[c].inst][r[2]], c,
                                Len(s.layers[cfg[c].inst][r[2]])) = 0
                     /\ InSeq(r[1], TopLayer(s.layers[cfg[c].inst][r[2]]))}
             ELSE {}
  IN kept \cup new

NextUnreleased(s, type) ==
  LET gone == SelectSeq(KEYCODES_PUSHED,
                        LAMBDA x : \E j \in 1..Len(s.log) :
                                      s.log[j].kind = "release"
                                      /\ s.log[j].k = x)
  IN IF type = "blur" /\ gone # <<>> THEN gone[1] ELSE 0

NextFreed(s, type, i) ==
  {x \in freed \cup (IF type = "close"
                     THEN {y \in Calls : cfg[y].inst = i} ELSE {}) :
     s.status[x] = "bound"}

\* s.armed: the timers that the operation armed
NextUpSince(s) ==
  [i \in Insts |-> [n \in Names |->
     IF s.reEmitTimeoutIds[i][n] \notin {"reg", "unreg"} \/ <<i, n>> \in s.armed
     THEN {}
     ELSE upSince[i][n]
          \cup {x \in MappedCodes :
                  /\ KEY_MAP[x] = n /\ InSeq(x, KEYCODES_PUSHED)
                  /\ ~InSeq(x, s.KEYCODES_PUSHED)}]]

Commit(s, type, c, k) ==
  /\ last' = FoldLast(last, s.log, 1)
  /\ freed' = NextFreed(s, type, c)
  /\ upSince' = NextUpSince(s)
  /\ downs' = s.downs
  /\ unreleased' = NextUnreleased(s, type)
  /\ rowner' = NextRowner(s, type, c)
  /\ heldSince' = NextHeldSince(s, type, c)
  /\ lapsed' = NextLapsed(s, type, c)
  /\ restored' = NextRestored(s, type, c, k)
  /\ KEYCODES_PUSHED' = s.KEYCODES_PUSHED
  /\ keyDownCallbacks' = s.keyDownCallbacks
  /\ keyUpCallbacks' = s.keyUpCallbacks
  /\ layers' = s.layers
  /\ keyCodesMaintained' = s.keyCodesMaintained
  /\ reEmitTimeoutIds' = s.reEmitTimeoutIds
  /\ timers' = s.timers
  /\ keysObj' = s.keysObj
  /\ activePresses' = s.activePresses
  /\ status' = s.status
  /\ UNCHANGED <<cfg, kbOpt, config, instances, handlers, invoked, rx,
                 pressOpt, pressIntervals>>

\* the application makes its listen calls in the order a, b, c, d
Earlier(c) ==
  CASE c = "a" -> {} [] c = "b" -> {"a"} [] c = "c" -> {"a", "b"}
    [] OTHER -> {"a", "b", "c"}

CanListen(c) ==
  /\ status[c] = "new"
  /\ Keys(c) # <<>>
  /\ \A e \in Earlier(c) : status[e] # "new"

Listen(c) ==
  /\ CanListen(c)
  /\ Commit(listen(State, c), "listen", c, 0)

CanUnsubscribe(c) == status[c] = "bound"

Unsubscribe(c) ==
  /\ CanUnsubscribe(c)
  /\ Commit(unsubscribe(State, c), "unsubscribe", c, 0)

CanClose(i) == InSeq(KcDown(i), keyDownCallbacks)

Close(i) ==
  /\ CanClose(i)
  /\ Commit(close(State, i), "close", i, 0)

CanKeyDown(k) == InSeq(k, KEYCODES_PUSHED) \/ Len(KEYCODES_PUSHED) < MaxHeld

KeyDown(k) ==
  /\ CanKeyDown(k)
  /\ Commit(onKeyDown(State, k), "keydown", "", k)

KeyUp(k) ==
  /\ k \in RawCodes
  /\ Commit(onKeyUp(State, k), "keyup", "", k)

CanBlur == Len(KEYCODES_PUSHED) > 0

Blur ==
  /\ CanBlur
  /\ Commit(onBlur(State), "blur", "", 0)

CanReEmit(i, n) == reEmitTimeoutIds[i][n] \in {"reg", "unreg"}

ReEmitTimeout(i, n) ==
  /\ CanReEmit(i, n)
  /\ Commit(reEmitTimeout(State, i, n), "reemit", n, 0)

CanPressTimeout(c, k, st) ==
  /\ Earliest(c, k, st)
  /\ keysObj[c][k].currentPressInterval < MaxPressCount

PressTimeout(c, k, st) ==
  /\ CanPressTimeout(c, k, st)
  /\ Commit(pressTimeout(State, c, k, st), "timeout", "", 0)

CanPressInterval(c, k) == keysObj[c][k].running # {}

PressInterval(c, k) ==
  /\ CanPressInterval(c, k)
  /\ Commit(sendPressEvent(State, c, k), "interval", "", 0)

Next ==
  \/ \E c \in Calls : Listen(c)
  \/ \E c \in Calls : Unsubscribe(c)
  \/ \E i \in Insts : Close(i)
  \/ \E k \in RawCodes : KeyDown(k)
  \/ \E k \in RawCodes : KeyUp(k)
  \/ Blur
  \/ \E i \in Insts, n \in Names : ReEmitTimeout(i, n)
  \/ \E c \in Calls, k \in MappedCodes :
        \E st \in DOMAIN cfg[c].press : PressTimeout(c, k, st)
  \/ \E c \in Calls, k \in MappedCodes : PressInterval(c, k)

vars == <<KEYCODES_PUSHED, keyDownCallbacks, keyUpCallbacks, layers,
          keyCodesMaintained, reEmitTimeoutIds, timers, keysObj,
          activePresses,
          status, cfg, kbOpt, config, instances, handlers, invoked, rx,
          pressOpt, pressIntervals, last, downs, unreleased, heldSince, rowner,
          lapsed, restored, freed, upSince>>

InitProgram ==
  /\ KEYCODES_PUSHED = <<>>
  /\ keyDownCallbacks = <<>>
  /\ keyUpCallbacks = <<>>
  /\ layers = [i \in Insts |-> [n \in Names |-> <<>>]]
  /\ keyCodesMaintained = [i \in Insts |-> [n \in Names |-> Undef]]
  /\ reEmitTimeoutIds = [i \in Insts |-> [n \in Names |-> "none"]]
  /\ timers = [i \in Insts |-> [n \in Names |-> 0]]
  /\ keysObj = [c \in Calls |-> [k \in MappedCodes |-> NewKeyObj]]
  /\ activePresses = [i \in Insts |-> [n \in Names |-> ApUndef]]
  /\ status = [c \in Calls |-> "new"]
  /\ last = [c \in Calls |-> [k \in MappedCodes |-> "up"]]
  /\ downs = [k \in RawCodes |-> 0]
  /\ unreleased = 0
  /\ heldSince = [c \in Calls |-> {}]
  /\ rowner = [i \in Insts |-> [n \in Names |-> ""]]
  /\ lapsed = [c \in Calls |-> {}]
  /\ restored = {}
  /\ freed = {}
  /\ upSince = [i \in Insts |-> [n \in Names |-> {}]]

\* no adapter call has been made
NoEvent == [event |-> "", q |-> <<>>]
NoRx == [made |-> FALSE, thrown |-> FALSE, value |-> "", keys |-> <<>>]
NoSort == [made |-> FALSE, thrown |-> FALSE, v |-> <<>>]
InitIdle ==
  /\ handlers = {} /\ invoked = NoEvent /\ rx = NoRx
  /\ pressOpt = <<>> /\ pressIntervals = NoSort

\* config.js as the modules load it
defaultConfig ==
  [KEY_MAP |-> KEY_MAP, GROUPINGS |-> GROUPINGS,
   DEFAULT_PROPAGATE_VALUE |-> DEFAULT_PROPAGATE_VALUE]

\* createKeyboard(opt) of instance i: the key map and the groupings are read
\* from the registry when it runs (no scenario gives opt.keyMap or
\* opt.groupings); the propagate and combine defaults come from the
\* constants that keyboard.js took from the registry when it was loaded
createKeyboard(reg, i) ==
  [made |-> TRUE, keyMap |-> reg.KEY_MAP, groupings |-> reg.GROUPINGS,
   defaultPropagate |-> defaultPropagate(i),
   defaultCombine |-> defaultCombine(i)]

\* the registry is as loaded and every instance is created from it
InitModule ==
  /\ config = defaultConfig
  /\ instances = [i \in Insts |-> createKeyboard(config, i)]

\* createKeyboard() without options
NoKbOpt == [i \in Insts |-> KbOpt("unset", NoNum, "unset")]
InitDefault == InitProgram /\ kbOpt = NoKbOpt /\ InitModule /\ InitIdle

\* ----------------------------------------------------------- scenarios
Plain(keys, propagate, reEmit) ==
  Opt(keys, FALSE, <<>>, propagate, reEmit, "unset")

\* propagation and re-emit, no press option
ScenProp ==
  [c \in Calls |->
     CASE c = "a" -> Plain(<<"Enter">>, "unset", NoNum)
       [] c = "b" -> Plain(<<"Enter">>, "unset", Num(-1))
       [] c = "c" -> Plain(<<"Enter", "Window">>, "false", Num(0))
       [] OTHER -> NoCall]

\* press stages, shared layers, combine false
ScenPress ==
  [c \in Calls |->
     CASE c = "a" -> Opt(<<"Enter">>, TRUE, <<Stage(500, Num(200))>>,
                         "unset", NoNum, "unset")
       [] c = "b" -> Opt(<<"Enter">>, TRUE,
                         <<Stage(500, NoNum), Stage(1000, Num(300))>>,
                         "true", NoNum, "unset")
       [] OTHER -> NoCall]

\* four calls on one key: three non-propagating ones, then a propagating one
ScenFour ==
  [c \in Calls |->
     CASE c = "a" -> Opt(<<"Enter">>, TRUE, <<Stage(500, Num(200))>>,
                         "false", Num(0), "unset")
       [] c = "d" -> Plain(<<"Enter">>, "true", Num(-1))
       [] OTHER -> Plain(<<"Enter">>, "false", Num(-1))]

\* a call with a one-shot press stage and re-emit off, then a propagating
\* call with a repeating stage followed by a silent one
ScenHold ==
  [c \in Calls |->
     CASE c = "a" -> Opt(<<"Enter">>, TRUE, <<Stage(500, NoNum)>>,
                         "unset", Num(-1), "unset")
       [] c = "b" -> Opt(<<"Enter">>, TRUE,
                         <<Stage(500, Num(200)), Stage(1000, NoNum)>>,
                         "true", NoNum, "unset")
       [] OTHER -> NoCall]

\* one call on two key names (three codes) with a repeating press stage,
\* combine left to its default
ScenCombine ==
  [c \in Calls |->
     CASE c = "a" -> Opt(<<"Enter", "Window">>, TRUE,
                         <<Stage(500, Num(200))>>, "unset", NoNum, "unset")
       [] OTHER -> NoCall]

\* a first call without press option, then a propagating call on two key
\* names with a repeating press stage and combine false
ScenSolo ==
  [c \in Calls |->
     CASE c = "a" -> Plain(<<"Enter">>, "unset", NoNum)
       [] c = "b" -> Opt(<<"Enter", "Window">>, TRUE,
                         <<Stage(500, Num(200))>>, "true", Num(-1), "false")
       [] OTHER -> NoCall]

\* two calls with press stages and combine false on one key name
ScenSoloPair ==
  [c \in Calls |->
     CASE c = "a" -> Opt(<<"Enter">>, TRUE, <<Stage(500, Num(200))>>,
                         "unset", NoNum, "false")
       [] c = "b" -> Opt(<<"Enter">>, TRUE, <<Stage(500, NoNum)>>,
                         "true", Num(-1), "false")
       [] OTHER -> NoCall]

\* createKeyboard({propagate: false, reEmit: 0, combine: false}): a call
\* without options, a call that gives the three options, a call without
\* options again
ScenFalsy ==
  [c \in Calls |->
     CASE c = "a" -> Opt(<<"Enter">>, TRUE, <<Stage(500, Num(200))>>,
                         "unset", NoNum, "unset")
       [] c = "b" -> Opt(<<"Enter">>, FALSE, <<>>, "true", Num(-1), "true")
       [] c = "c" -> Opt(<<"Enter">>, FALSE, <<>>, "unset", NoNum, "unset")
       [] OTHER -> NoCall]

\* a call with a press stage, then a call on the grouping Pair; call d is
\* the call on the list of the members of Pair, with the same options, that
\* the scenario never makes (call c, which precedes it, is never made)
ScenGroup ==
  [c \in Calls |->
     CASE c = "a" -> Opt(<<"Enter">>, TRUE, <<Stage(500, Num(200))>>,
                         "unset", Num(-1), "unset")
       [] c = "b" -> Plain(<<"Pair">>, "true", NoNum)
       [] c = "d" -> Plain(<<"Enter", "Window">>, "true", NoNum)
       [] OTHER -> NoCall]

\* two calls with press stages on one instance, one call on another
ScenTwo ==
  [c \in Calls |->
     CASE c = "a" -> Opt(<<"Enter">>, TRUE, <<Stage(500, Num(200))>>,
                         "unset", NoNum, "unset")
       [] c = "b" -> Opt(<<"Enter">>, TRUE, <<Stage(500, NoNum)>>,
                         "true", Num(-1), "unset")
       [] c = "c" -> On("kb2", Plain(<<"Enter">>, "unset", NoNum))
       [] OTHER -> NoCall]

\* callbacks that unbind during a dispatch: the callback of a unbinds a, the
\* only call of kb1; the callback of c unbinds b, registered before it in the
\* same layer of kb2
ScenUnbind ==
  [c \in Calls |->
     CASE c = "a" -> Reacting(Plain(<<"Enter">>, "unset", NoNum),
                              "push", "unbind", "a")
       [] c = "b" -> On("kb2", Opt(<<"Enter">>, TRUE, <<Stage(500, NoNum)>>,
                                   "unset", NoNum, "unset"))
       [] c = "c" -> Reacting(On("kb2", Opt(<<"Enter">>, TRUE,
                                            <<Stage(500, Num(200))>>,
                                            "true", NoNum, "unset")),
                              "push", "unbind", "b")
       [] OTHER -> NoCall]

\* a callback that calls stopPropagation: the callback of b, registered
\* after a in the same layer, stops the propagation of every push; c takes
\* the key over in a layer of its own
ScenStop ==
  [c \in Calls |->
     CASE c = "a" -> Opt(<<"Enter">>, TRUE, <<Stage(500, Num(200))>>,
                         "unset", NoNum, "unset")
       [] c = "b" -> Reacting(Opt(<<"Enter">>, TRUE, <<Stage(500, NoNum)>>,
                                  "true", NoNum, "unset"),
                              "push", "stop", "")
       [] c = "c" -> Plain(<<"Enter">>, "false", NoNum)
       [] OTHER -> NoCall]

Scenarios == {ScenProp, ScenPress}

Init == InitDefault /\ cfg \in Scenarios
InitPress == InitDefault /\ cfg = ScenPress
SpecPress == InitPress /\ [][Next]_vars
InitHold == InitDefault /\ cfg = ScenHold
SpecHold == InitHold /\ [][Next]_vars
InitCombine == InitDefault /\ cfg = ScenCombine
SpecCombine == InitCombine /\ [][Next]_vars
InitSolo == InitDefault /\ cfg = ScenSolo
SpecSolo == InitSolo /\ [][Next]_vars
InitSoloPair == InitDefault /\ cfg = ScenSoloPair
SpecSoloPair == InitSoloPair /\ [][Next]_vars
InitFalsy ==
  /\ InitProgram
  /\ kbOpt = [i \in Insts |-> KbOpt("false", Num(0), "false")]
  /\ InitModule
  /\ InitIdle
  /\ cfg = ScenFalsy
SpecFalsy == InitFalsy /\ [][Next]_vars
\* Keyboard.GROUPINGS = {Pair: ['Enter', 'Window']} before the instances
\* are created
InitGroup ==
  /\ InitProgram
  /\ kbOpt = NoKbOpt
  /\ config = [defaultConfig EXCEPT !.GROUPINGS = PairGroupings]
  /\ instances = [i \in Insts |-> createKeyboard(config, i)]
  /\ InitIdle
  /\ cfg = ScenGroup
SpecGroup == InitGroup /\ [][Next]_vars
InitTwo == InitDefault /\ cfg = ScenTwo
SpecTwo == InitTwo /\ [][Next]_vars

InitStop == InitDefault /\ cfg = ScenStop
SpecStop == InitStop /\ [][Next]_vars

InitUnbind == InitDefault /\ cfg = ScenUnbind
SpecUnbind == InitUnbind /\ [][Next]_vars
InitFour == InitDefault /\ cfg = ScenFour
SpecFour == InitFour /\ [][Next]_vars

Spec == Init /\ [][Next]_vars

\* ------------------------------------------------- the static fields
\* the three adapters index.js exports
Adapters == {"Keyboard", "RxKeyboard", "SimpleKeyboard"}
\* the fields of the registry that the adapters expose
Fields == {"KEY_MAP", "GROUPINGS", "DEFAULT_PROPAGATE_VALUE"}
\* a key map an application may assign
OkMap == (13 :> "OK")
\* the values an application assigns to a field
ConfValues(conf) ==
  CASE conf = "KEY_MAP" -> {KEY_MAP, OkMap}
    [] conf = "GROUPINGS" -> {GROUPINGS, PairGroupings}
    [] OTHER -> BOOLEAN

\* Object.defineProperty(implem, conf, {get, set}): both accessors of every
\* adapter go to the one registry object
getStatic(reg, implem, conf) == reg[conf]
setStatic(reg, implem, conf, val) == [reg EXCEPT ![conf] = val]

progAndHistory == <<progVars, cfg, kbOpt, last, downs, unreleased, heldSince,
                    rowner, lapsed, restored, freed, upSince, handlers,
                    invoked, rx,
                    pressOpt, pressIntervals>>

\* Adapter.FIELD = val
Assign(implem, conf, val) ==
  /\ config' = setStatic(config, implem, conf, val)
  /\ UNCHANGED <<progAndHistory, instances>>

\* createKeyboard() with no options
Create(i) ==
  /\ instances' = [instances EXCEPT ![i] = createKeyboard(config, i)]
  /\ UNCHANGED <<progAndHistory, config>>

NextConfig ==
  \/ \E implem \in Adapters, conf \in Fields :
        \E val \in ConfValues(conf) : Assign(implem, conf, val)
  \/ \E i \in Insts : Create(i)

\* the modules are loaded, no instance is created yet
InitConfig ==
  /\ InitProgram
  /\ kbOpt = NoKbOpt
  /\ cfg = [c \in Calls |-> NoCall]
  /\ config = defaultConfig
  /\ instances = [i \in Insts |->
                    [createKeyboard(defaultConfig, i) EXCEPT !.made = FALSE]]
  /\ InitIdle
SpecConfig == InitConfig /\ [][NextConfig]_vars

\* ------------------------------------------------------- the adapters
\* the handler fields the named-callback adapter takes out of the options
HandlerNames ==
  {"onPush", "onRelease", "onPress", "onDown", "onEvent", "onUnbind"}
EventNames == {"push", "press", "release"}

\* callIfExist = (cb, evt) => cb && cb(evt), q being the handlers invoked so
\* far
callIfExist(q, given, cb) == IF cb \in given THEN Append(q, cb) ELSE q

\* the switch without its break statements
onAdapterEventFallThrough(given, event) ==
  LET q1 == IF event = "push"
            THEN callIfExist(callIfExist(<<>>, given, "onPush"), given, "onDown")
            ELSE <<>>
      q2 == IF event \in {"push", "press"}
            THEN callIfExist(callIfExist(q1, given, "onPress"), given, "onDown")
            ELSE q1
      q3 == callIfExist(q2, given, "onRelease")
  IN callIfExist(q3, given, "onEvent")

\* the callback RKeyboard.listen passes to kb.listen
onAdapterEvent(given, event) ==
  LET q == CASE event = "push" ->
                  callIfExist(callIfExist(<<>>, given, "onPush"),
                              given, "onDown")
             [] event = "press" ->
                  callIfExist(callIfExist(<<>>, given, "onPress"),
                              given, "onDown")
             [] event = "release" -> callIfExist(<<>>, given, "onRelease")
             [] OTHER -> <<>>
  IN callIfExist(q, given, "onEvent")

\* the value createKeyboard returns: an object with the methods listen and
\* close
KeyboardObject == [kind |-> "object", methods |-> {"listen", "close"}]

\* the function RxKeyboard.create() returns, called with key names:
\* kb(...args.concat(callback)), kb being the value createKeyboard returned;
\* calling a value that is not a function is a TypeError
rxCall(kb, keys) ==
  IF kb.kind # "function"
  THEN [made |-> TRUE, thrown |-> TRUE, value |-> "", keys |-> <<>>]
  ELSE [made |-> TRUE, thrown |-> FALSE, value |-> "unsubscribe",
        keys |-> keys]

\* an event reaches the callback of the named-callback adapter
AdapterEvent(event) ==
  /\ invoked' = [event |-> event, q |-> onAdapterEvent(handlers, event)]
  /\ UNCHANGED <<progVars, cfg, kbOpt, last, downs, unreleased, heldSince,
                 rowner, lapsed, restored, freed, upSince, config,
                 instances, handlers, rx, pressOpt, pressIntervals>>

\* RxKeyboard.create()(keys)
RxCall(keys) ==
  /\ rx' = rxCall(KeyboardObject, keys)
  /\ UNCHANGED <<progVars, cfg, kbOpt, last, downs, unreleased, heldSince,
                 rowner, lapsed, restored, freed, upSince, config,
                 instances, handlers, invoked, pressOpt, pressIntervals>>

\* the key name lists given to the push-stream adapter
KeyLists == {<<"Enter">>, <<"Window">>, <<"Enter", "Window">>}

NextAdapters ==
  \/ \E event \in EventNames : AdapterEvent(event)
  \/ \E keys \in KeyLists : RxCall(keys)

\* a listen call of the named-callback adapter with any of the handlers
InitAdapters ==
  /\ InitProgram
  /\ kbOpt = NoKbOpt
  /\ InitModule
  /\ cfg = [c \in Calls |-> NoCall]
  /\ handlers \in SUBSET HandlerNames
  /\ invoked = NoEvent
  /\ rx = NoRx
  /\ pressOpt = <<>> /\ pressIntervals = NoSort
SpecAdapters == InitAdapters /\ [][NextAdapters]_vars

\* --------------------------------------------------- the press option
\* an entry of the press array as given: +entry.after and +entry.interval,
\* each a number or NaN
RawStage(after, interval) == [after |-> after, interval |-> interval]
RawStages ==
  {RawStage(a, i) : a \in {NoNum, Num(500), Num(1000)}, i \in {NoNum, Num(200)}}
\* the arrays of at most n entries
RECURSIVE ArraysUpTo(_)
ArraysUpTo(n) ==
  IF n = 0 THEN {<<>>}
  ELSE ArraysUpTo(n - 1)
       \cup {Append(q, e) : q \in {x \in ArraysUpTo(n - 1) : Len(x) = n - 1},
                            e \in RawStages}

\* const j = i; while (j > 0 && [j - 1].after > [j].after) swap: j never
\* changes, so at most one swap is made
swapOnce(arr, j) ==
  IF j > 1 /\ arr[j - 1].after.v > arr[j].after.v
  THEN [arr EXCEPT ![j - 1] = arr[j], ![j] = arr[j - 1]]
  ELSE arr

\* the for loop, i being 1-based; len is the length the array had when the
\* function was entered, and reading .after of an entry past the end of the
\* array is a TypeError
RECURSIVE sortLoop(_, _, _)
sortLoop(arr, i, len) ==
  IF i > len THEN [made |-> TRUE, thrown |-> FALSE, v |-> arr]
  ELSE IF i > Len(arr) THEN [made |-> TRUE, thrown |-> TRUE, v |-> arr]
  ELSE IF ~arr[i].after.set /\ ~arr[i].interval.set
       THEN sortLoop(RemoveAt(arr, i), i, len)
       ELSE LET e == IF arr[i].after.set THEN arr[i]
                     ELSE RawStage(arr[i].interval, arr[i].interval)
            IN sortLoop(swapOnce([arr EXCEPT ![i] = e], i), i + 1, len)

sortPressIntervals(arr) == sortLoop(arr, 1, Len(arr))

\* _processOptions with an array as press option
ProcessOptions ==
  /\ pressIntervals' = sortPressIntervals(pressOpt)
  /\ UNCHANGED <<progVars, cfg, kbOpt, last, downs, unreleased, heldSince,
                 rowner, lapsed, restored, freed, upSince, config,
                 instances, handlers, invoked, rx, pressOpt>>

NextPressOpt == ProcessOptions

InitPressOpt ==
  /\ InitProgram
  /\ kbOpt = NoKbOpt
  /\ InitModule
  /\ cfg = [c \in Calls |-> NoCall]
  /\ handlers = {} /\ invoked = NoEvent /\ rx = NoRx
  /\ pressOpt \in ArraysUpTo(MaxStages)
  /\ pressIntervals = NoSort
SpecPressOpt == InitPressOpt /\ [][NextPressOpt]_vars

\* ============================================================ properties
\* The properties are stated on the operations: in every reachable state,
\* whatever operation runs next, its outcome is as claimed.

\* an operation that can run in the current state, with the key code or key
\* name, instance or call it is about, and the state s it leaves (s.log: what it invoked
\* and delivered, in order; s.thrown: it ended by an exception)
Outcome(type, c, k, n, s) ==
  [type |-> type, c |-> c, k |-> k, n |-> n, s |-> s]

Outcomes ==
  {Outcome("listen", c, 0, "", listen(State, c)) :
     c \in {x \in Calls : CanListen(x)}}
  \cup {Outcome("unsubscribe", c, 0, "", unsubscribe(State, c)) :
     c \in {x \in Calls : CanUnsubscribe(x)}}
  \cup {Outcome("close", "", 0, i, close(State, i)) :
     i \in {x \in Insts : CanClose(x)}}
  \cup {Outcome("keydown", "", k, "", onKeyDown(State, k)) :
     k \in {x \in RawCodes : CanKeyDown(x)}}
  \cup {Outcome("keyup", "", k, "", onKeyUp(State, k)) : k \in RawCodes}
  \cup (IF CanBlur THEN {Outcome("blur", "", 0, "", onBlur(State))} ELSE {})
  \cup {Outcome("reemit", "", 0, p[2], reEmitTimeout(State, p[1], p[2])) :
     p \in {q \in Insts \X Names : CanReEmit(q[1], q[2])}}
  \cup {Outcome("timeout", p[1], p[2], "",
                pressTimeout(State, p[1], p[2], p[3])) :
     p \in {q \in Calls \X MappedCodes \X (1..2) :
              /\ q[3] \in DOMAIN cfg[q[1]].press
              /\ CanPressTimeout(q[1], q[2], q[3])}}
  \cup {Outcome("interval", p[1], p[2], "",
                sendPressEvent(State, p[1], p[2])) :
     p \in {q \in Calls \X MappedCodes : CanPressInterval(q[1], q[2])}}

\* the events one operation delivered to call c for code k, in order
Delivered(q, c, k) ==
  SelectSeq(q, LAMBDA e : e.kind \in AppEvents /\ e.c = c /\ e.k = k)

\* the entries of one kind in what one operation did
OfKind(q, kind) == SelectSeq(q, LAMBDA e : e.kind = kind)

\* the dispatch callbacks one operation invoked, in order
Dispatched(q) ==
  SelectSeq(q, LAMBDA e : e.kind \in {"keydown", "keyup"})

\* the calls of a set whose dispatch callback one operation invoked, in order
RECURSIVE CallsOf(_, _, _)
CallsOf(q, S, j) ==
  IF j > Len(q) THEN <<>>
  ELSE IF q[j].c \in S THEN <<q[j].c>> \o CallsOf(q, S, j + 1)
       ELSE CallsOf(q, S, j + 1)

\* q continues the protocol push, press*, release from the given phase
RECURSIVE Alternates(_, _, _)
Alternates(phase, q, j) ==
  IF j > Len(q) THEN TRUE
  ELSE IF q[j].kind = "push"
       THEN phase = "up" /\ Alternates("down", q, j + 1)
       ELSE phase = "down"
            /\ Alternates(IF q[j].kind = "release" THEN "up" ELSE "down",
                          q, j + 1)

\* the Key Catcher of call c still has its bridge callbacks attached
Attached(c) ==
  /\ InSeq(KcDown(cfg[c].inst), keyDownCallbacks)
  /\ InSeq(KcUp(cfg[c].inst), keyUpCallbacks)

\* call c is in the topmost layer of the name of code k
OnTop(c, k) == InSeq(c, TopLayer(layers[cfg[c].inst][KEY_MAP[k]]))

\* o is a raw keydown of code k that the bridge does not drop
PhysicalPush(o, k) ==
  o.type = "keydown" /\ o.k = k /\ ~InSeq(k, KEYCODES_PUSHED)

\* o is one raw signal of code k that reaches the callbacks
RawSignal(o, k) == PhysicalPush(o, k) \/ (o.type = "keyup" /\ o.k = k)

\* y is a second handler of a key of x: both calls of one instance name the
\* key of code k, y was made after x, and both are bound before and after
\* operation o
SecondHandler(o, x, y, k) ==
  /\ x \in Earlier(y)
  /\ cfg[x].inst = cfg[y].inst
  /\ InSeq(KEY_MAP[k], Keys(x)) /\ InSeq(KEY_MAP[k], Keys(y))
  /\ status[x] = "bound" /\ status[y] = "bound"
  /\ o.s.status[x] = "bound" /\ o.s.status[y] = "bound"

\* C1: for every listen call and every code it tracks, the delivered events
\* are repetitions of one push, zero or more press, one release: every
\* operation (key signal, listen, unsubscribe, close, blur, timer) delivers
\* a push only when the previous event of that call and code was a release
\* or there was none, and a press or a release only after a push that has
\* not been released yet.
C1_PushPressRelease ==
  \A o \in Outcomes, c \in Calls, k \in MappedCodes :
     Alternates(last[c][k], Delivered(o.s.log, c, k), 1)

\* a keyup delivers a release that follows a push and at least one press
C1_Witness ==
  \E o \in Outcomes, c \in Calls, k \in MappedCodes :
     /\ o.type = "keyup" /\ Got(c, k)
     /\ \E j \in 1..Len(o.s.log) :
          /\ o.s.log[j] = [kind |-> "release", c |-> c, k |-> k,
                           n |-> o.s.log[j].n]
          /\ o.s.log[j].n >= 1

\* C2: when a call has delivered a push for a code and a raw keyup of that
\* code reaches the bridge while the call is in the topmost layer of the key
\* name, the call delivers exactly one release and clears its pushed flag,
\* for any number of calls with press options sharing the layer.
C2_ReleaseOnKeyUp ==
  \A o \in Outcomes, c \in Calls, k \in MappedCodes :
     (o.type = "keyup" /\ o.k = k /\ Got(c, k) /\ OnTop(c, k) /\ Attached(c))
     => /\ Len(OfKind(Delivered(o.s.log, c, k), "release")) = 1
        /\ ~o.s.keysObj[c][k].isPushed

\* C3: a keydown or keyup signal of a key name invokes only callbacks of the
\* last (topmost) layer of the key name's stack at dispatch time; a callback
\* that is only in a lower layer is never invoked.
C3_OnlyTopLayer ==
  \A o \in Outcomes :
     \A j \in 1..Len(Dispatched(o.s.log)) :
        LET e == Dispatched(o.s.log)[j]
        IN InSeq(e.c, TopLayer(layers[cfg[e.c].inst][KEY_MAP[e.k]]))

\* a signal is dispatched for a key name that has a latent lower layer
C3_Witness ==
  \E o \in Outcomes :
     \E j \in 1..Len(Dispatched(o.s.log)) :
        LET e == Dispatched(o.s.log)[j]
            L == layers[cfg[e.c].inst][KEY_MAP[e.k]]
        IN /\ Len(L) >= 2
           /\ \E x \in Calls : InSeq(x, L[1]) /\ ~InSeq(x, L[Len(L)])

\* C4: on an instance created without a propagate option, when a second
\* handler binds a key already bound by a first handler and gives no
\* propagate option, the first handler receives no event for that key
\* while the second one is bound.
C4_DefaultShadows ==
  \A o \in Outcomes, x \in Calls, y \in Calls, k \in MappedCodes :
     (SecondHandler(o, x, y, k)
      /\ ~isSet(cfg[y].propagate)
      /\ ~isSet(kbOpt[cfg[y].inst].propagate))
     => Delivered(o.s.log, x, k) = <<>>

\* C5: when a non-propagating call B, registered on a key a call A already
\* listened to, has been unbound, the next physical push of the key delivers
\* a push to A, whatever key signals occurred before and while B was bound.
C5_PushAfterUnbind ==
  \A o \in Outcomes, x \in Calls, k \in MappedCodes :
     (PhysicalPush(o, k) /\ <<x, KEY_MAP[k]>> \in restored /\ Attached(x))
     => Len(OfKind(Delivered(o.s.log, x, k), "push")) = 1

\* C6: when call A is registered on a key and call B then registers on it
\* with propagate true, a single down or up signal of the key invokes B's
\* callback then A's callback, each exactly once.
C6_PropagateOrder ==
  \A o \in Outcomes, x \in Calls, y \in Calls, k \in MappedCodes :
     (RawSignal(o, k) /\ SecondHandler(o, x, y, k)
      /\ cfg[y].propagate = "true"
      /\ OnTop(x, k) /\ OnTop(y, k) /\ Attached(x))
     => CallsOf(Dispatched(o.s.log), {x, y}, 1) = <<y, x>>

\* the four calls are bound on the key of code k, as the scenario makes them
FourBound(k) ==
  /\ \A x \in Calls :
       /\ InSeq(KEY_MAP[k], Keys(x))
       /\ status[x] = "bound"
       /\ cfg[x].propagate = (IF x = "d" THEN "true" ELSE "false")
  /\ Attached("a")

\* C7: with the registrations a, b and c non-propagating in that order and
\* then d propagating on one key, a single push invokes exactly the
\* callbacks c and d, in the order c then d.
C7_FourRegistrations ==
  \A o \in Outcomes, k \in MappedCodes :
     (PhysicalPush(o, k) /\ FourBound(k))
     => CallsOf(Dispatched(o.s.log), Calls, 1) = <<"c", "d">>

\* a raw keydown of a code that is in the ledger changes nothing
RepeatDropped ==
  \A o \in Outcomes :
     (o.type = "keydown" /\ InSeq(o.k, KEYCODES_PUSHED)) => o.s = State

\* C8 as stated: for every code, the bridge down-callbacks are invoked at
\* most once (every listener gets at most one push) between two consecutive
\* raw keyup signals of the code; a raw keydown of a code in the ledger is
\* dropped; the ledger never holds a code twice.  A code released by the
\* blur handler had its push and no raw keyup since.
C8_OncePerRawKeyUp ==
  /\ \A k \in RawCodes : downs[k] <= 1
  /\ \A o \in Outcomes :
       (o.type = "keydown" /\ o.k = unreleased)
       => OfKind(o.s.log, "push") = <<>>
  /\ RepeatDropped
  /\ NoDup(KEYCODES_PUSHED)

\* C8, amended: for every code, the bridge dispatches a keydown at most once
\* (every listener gets at most one push) between two consecutive keyup
\* signals of the code, raw or synthesised by the window blur handler; a raw keydown of a code in the
\* ledger is dropped; the ledger never holds a code twice.
C8_OncePerKeyUp ==
  /\ \A k \in RawCodes : downs[k] <= 1
  /\ RepeatDropped
  /\ NoDup(KEYCODES_PUSHED)

\* a repeated keydown arrives for a held code that a bound call listens to
C8_Witness ==
  \E o \in Outcomes, c \in Calls :
     /\ o.type = "keydown" /\ o.k \in MappedCodes
     /\ InSeq(o.k, KEYCODES_PUSHED) /\ downs[o.k] = 1
     /\ OnTop(c, o.k) /\ Attached(c) /\ Got(c, o.k)

\* the pending re-emit timer of the name of code k was armed by the
\* registration of call c, which is still bound
OwnsTimer(c, k) ==
  /\ reEmitTimeoutIds[cfg[c].inst][KEY_MAP[k]] = "reg"
  /\ rowner[cfg[c].inst][KEY_MAP[k]] = c
  /\ status[c] = "bound"

\* C9: if a key is held when a call registers for it with a re-emit delay
\* d >= 0 and is still held d ms later (when the timer fires) without the
\* call having received a push for it, the call receives a push for the key
\* then, whatever other keys were pushed and whatever was registered
\* meanwhile.
C9_ReEmitPush ==
  \A o \in Outcomes, c \in Calls, k \in MappedCodes :
     (o.type = "reemit" /\ o.n = KEY_MAP[k] /\ OwnsTimer(c, k)
      /\ k \in heldSince[c] /\ ~Got(c, k))
     => Len(OfKind(Delivered(o.s.log, c, k), "push")) = 1

\* C10: if a key that was held when a call registered is released before
\* the call's re-emit delay elapses, the call receives no release when the
\* key is released and no synthetic push when the timer fires.
C10_NoPushNoRelease ==
  \A o \in Outcomes, c \in Calls, k \in MappedCodes :
     /\ (o.type \in {"keyup", "blur"} /\ OwnsTimer(c, k)
         /\ k \in heldSince[c] /\ ~Got(c, k)
         /\ ~InSeq(k, o.s.KEYCODES_PUSHED))
        => Delivered(o.s.log, c, k) = <<>>
     /\ (o.type = "reemit" /\ k \in lapsed[c])
        => Delivered(o.s.log, c, k) = <<>>

\* the call that is active for key name n in state s: the most recently
\* added callback of the topmost layer ("" if the name has no layer)
ActiveCall(s, i, n) ==
  LET t == TopLayer(s.layers[i][n])
  IN IF t = <<>> THEN "" ELSE t[Len(t)]

\* call x has yet to get a push for the held code k
AwaitsPush(x, k) ==
  /\ x # "" /\ status[x] = "bound" /\ Attached(x) /\ WantsReEmit(x)
  /\ InSeq(k, KEYCODES_PUSHED)
  /\ ~Got(x, k) /\ ~keysObj[x][k].isPushed

\* C11: when the call that owns a held key (the most recently added callback
\* of the topmost layer) is unregistered, the call that becomes active again,
\* in the same layer or in the layer below, gets a push for the held key once
\* its own non-negative re-emit delay has elapsed: the unregistration leaves
\* a re-emit timer pending for the key name, and the timer armed by an
\* unregistration delivers the push when it fires.
C11_ReArmedPush ==
  /\ \A o \in Outcomes, k \in MappedCodes :
       (o.type = "unsubscribe" /\ ~o.s.thrown
        /\ ActiveCall(State, cfg[o.c].inst, KEY_MAP[k]) = o.c
        /\ AwaitsPush(ActiveCall(o.s, cfg[o.c].inst, KEY_MAP[k]), k))
       => o.s.reEmitTimeoutIds[cfg[o.c].inst][KEY_MAP[k]] \in {"reg", "unreg"}
  /\ \A o \in Outcomes, i \in Insts, k \in MappedCodes :
       (o.type = "reemit" /\ o.n = KEY_MAP[k]
        /\ reEmitTimeoutIds[i][o.n] = "unreg"
        /\ InSeq(k, keyCodesMaintained[i][o.n].v)
        /\ KEYCODES_PUSHED[Len(KEYCODES_PUSHED)] = k
        /\ cfg[ActiveCall(State, i, o.n)].inst = i
        /\ AwaitsPush(ActiveCall(State, i, o.n), k))
       => Len(OfKind(Delivered(o.s.log, ActiveCall(State, i, o.n), k),
                     "push")) = 1

\* C12: a call bound with a negative reEmit value gets push events only from
\* physical keydowns that occur after its binding; no re-emit timer ever
\* delivers it a push, whatever other calls are registered on the instance.
C12_NoSyntheticPush ==
  \A o \in Outcomes, c \in Calls, k \in MappedCodes :
     (EffReEmit(c) < 0 /\ OfKind(Delivered(o.s.log, c, k), "push") # <<>>)
     => PhysicalPush(o, k) /\ status[c] = "bound"

\* C13: once the unsubscribe function of a listen call has run, the call's
\* callback gets no push, press or release from any later key signal or
\* timer: its press timeouts and repeat intervals are cancelled and its
\* dispatch callback is in no layer.
C13_UnbindCleanup ==
  \A c \in Calls :
     status[c] = "unbound"
     => /\ \A o \in Outcomes, k \in MappedCodes : Delivered(o.s.log, c, k) = <<>>
        /\ \A k \in MappedCodes :
             keysObj[c][k].timeouts = {} /\ keysObj[c][k].running = {}
        /\ \A n \in Names : LayerOf(layers[cfg[c].inst][n], c,
                                    Len(layers[cfg[c].inst][n])) = 0

\* C14: after close() on an instance, no push, press or release is delivered
\* to a handler bound through it, by any key signal or timer, the press
\* timeouts, repeat intervals and re-emit timers pending at close() included.
C14_NoEventAfterClose ==
  \A o \in Outcomes, c \in freed, k \in MappedCodes :
     Delivered(o.s.log, c, k) = <<>>

\* the bridge callbacks one operation invoked with code k, in order
Invoked(q, k) ==
  SelectSeq(q, LAMBDA e : e.kind = "bridge" /\ e.k = k)

\* the owners of the registered up-callbacks, in registration order
UpOwners == [j \in 1..Len(keyUpCallbacks) |-> keyUpCallbacks[j].o]

\* C15: when the window loses focus every code of the pressed-keycode ledger
\* is released: each registered up-callback whose scope includes the code is
\* invoked for it, and the ledger is empty afterwards, for any number of
\* held keys.
C15_BlurReleasesAll ==
  \A o \in Outcomes :
     o.type = "blur"
     => /\ o.s.KEYCODES_PUSHED = <<>>
        /\ \A k \in MappedCodes :
             InSeq(k, KEYCODES_PUSHED)
             => [j \in 1..Len(Invoked(o.s.log, k)) |-> Invoked(o.s.log, k)[j].c]
                = UpOwners

\* the push, press and release events one operation delivered, in order
Events(q) == SelectSeq(q, LAMBDA e : e.kind \in AppEvents)

\* state s as it is when the signals of the unmapped codes never occurred
Erase(s) ==
  [s EXCEPT !.KEYCODES_PUSHED = SelectSeq(@, LAMBDA x : x \in MappedCodes),
            !.downs = [k \in RawCodes |-> IF k \in MappedCodes THEN @[k] ELSE 0],
            !.log = <<>>]

\* two runs of one operation deliver the same events and leave states that
\* differ in the unmapped codes only
SameRun(s1, s2) == Events(s1.log) = Events(s2.log) /\ Erase(s1) = Erase(s2)

\* C16: the signals of codes that are not in the key map are invisible: two
\* runs that differ only in the down/up signals of unmapped codes deliver
\* the same events to every listener.  Stated step by step: a signal of an
\* unmapped code delivers nothing and changes nothing but the unmapped part
\* of the ledger, and every operation that reads the ledger delivers the
\* same events and leaves the same state, up to the unmapped codes, whether
\* it runs in the current state or in the state of the run without the
\* unmapped signals.  (close() and the press timers do not read the ledger.)
C16_UnmappedInvisible ==
  /\ \A k \in RawCodes \ MappedCodes :
       /\ CanKeyDown(k) => SameRun(onKeyDown(State, k), State)
       /\ SameRun(onKeyUp(State, k), State)
  /\ \A k \in MappedCodes :
       /\ CanKeyDown(k)
          => SameRun(onKeyDown(State, k), onKeyDown(Erase(State), k))
       /\ SameRun(onKeyUp(State, k), onKeyUp(Erase(State), k))
  /\ \A c \in Calls :
       /\ CanListen(c) => SameRun(listen(State, c), listen(Erase(State), c))
       /\ CanUnsubscribe(c)
          => SameRun(unsubscribe(State, c), unsubscribe(Erase(State), c))
  /\ CanBlur => SameRun(onBlur(State), onBlur(Erase(State)))
  /\ \A i \in Insts, n \in Names :
       CanReEmit(i, n)
       => SameRun(reEmitTimeout(State, i, n), reEmitTimeout(Erase(State), i, n))

\* call c has a single press stage with an after value and no interval
OneShot(c) ==
  cfg[c].hasPress /\ Len(cfg[c].press) = 1 /\ ~cfg[c].press[1].interval.set

\* C17: with a single press stage {after} and no interval, each hold yields
\* exactly one press event, fired by the stage's timeout after the push if
\* the key is still held, and no other press event until the key has been
\* released and pushed again: the push arms the one timeout, the timeout is
\* pending only while the key is held after a delivered push, only the
\* timeout delivers a press, exactly one, nothing re-arms it but a new push,
\* and no repeat interval ever runs.
C17_OneShotPress ==
  \A c \in Calls, k \in MappedCodes :
     OneShot(c)
     => /\ keysObj[c][k].running = {}
        /\ keysObj[c][k].timeouts # {}
           => Got(c, k) /\ InSeq(k, KEYCODES_PUSHED)
        /\ \A o \in Outcomes :
             LET presses == OfKind(Delivered(o.s.log, c, k), "press")
                 pushes == OfKind(Delivered(o.s.log, c, k), "push")
             IN /\ pushes # <<>> => o.s.keysObj[c][k].timeouts = {1}
                /\ presses # <<>>
                   => /\ Len(presses) = 1
                      /\ o.type = "timeout" /\ o.c = c /\ o.k = k
                      /\ o.s.keysObj[c][k].timeouts = {}
                /\ pushes = <<>>
                   => o.s.keysObj[c][k].timeouts \subseteq keysObj[c][k].timeouts

\* the stage counters (pressInterval) of the press events in q, in order
Counters(q) == [j \in 1..Len(OfKind(q, "press")) |-> OfKind(q, "press")[j].n]

\* C18: with a press stage that has both after and interval, the stage
\* counter (pressInterval) carried by the press events of one hold increases
\* with every press event emitted, those of the repeat interval included:
\* the press event of a stage timeout or of a repeat interval carries a
\* counter greater than keyObj.currentPressInterval, the counter that the
\* previous press event of the key carried.
C18_CounterIncreases ==
  \A o \in Outcomes, c \in Calls, k \in MappedCodes :
     (o.type \in {"timeout", "interval"} /\ o.c = c /\ o.k = k)
     => /\ Len(Counters(Delivered(o.s.log, c, k))) = 1
        /\ Counters(Delivered(o.s.log, c, k))[1]
             > keysObj[c][k].currentPressInterval

\* call c has several press stages
MultiStage(c) == cfg[c].hasPress /\ Len(cfg[c].press) >= 2

\* the stage of call c and code k whose timeout fires next
DueStage(c, k) == CHOOSE st \in DOMAIN cfg[c].press : Earliest(c, k, st)

\* C19: with several press stages, every stage has its own timeout, armed at
\* the push, and at most one repeat interval runs per tracked key at any
\* time: a stage's timeout, when it fires, stops the repeat an earlier stage
\* started, emits one press event and leaves the other stages pending; press
\* events then repeat at that stage's interval only, or not at all if the
\* stage has no interval.
C19_StagesAndRepeat ==
  \A c \in Calls, k \in MappedCodes :
     MultiStage(c)
     => /\ Cardinality(keysObj[c][k].running) <= 1
        /\ \A o \in Outcomes :
             LET ko == keysObj[c][k]
                 kn == o.s.keysObj[c][k]
                 presses == OfKind(Delivered(o.s.log, c, k), "press")
             IN /\ OfKind(Delivered(o.s.log, c, k), "push") # <<>>
                   => kn.timeouts = DOMAIN cfg[c].press
                /\ (o.type = "timeout" /\ o.c = c /\ o.k = k)
                   => /\ Len(presses) = 1
                      /\ kn.timeouts = ko.timeouts \ {DueStage(c, k)}
                      /\ kn.running =
                           IF cfg[c].press[DueStage(c, k)].interval.set
                           THEN {DueStage(c, k)} ELSE {}
                /\ (o.type = "interval" /\ o.c = c /\ o.k = k)
                   => /\ Len(presses) = 1
                      /\ ko.running = {ko.interval}
                      /\ kn.running = ko.running

\* the timeout of a later stage fires while the repeat of an earlier stage
\* runs, and stops it
C19_Witness ==
  \E o \in Outcomes, c \in Calls, k \in MappedCodes :
     /\ MultiStage(c) /\ o.type = "timeout" /\ o.c = c /\ o.k = k
     /\ keysObj[c][k].running # {}
     /\ o.s.keysObj[c][k].running = {}

\* a keydown of another code leaves the press timers of code k of call c
\* as they are
TimersKept(o, c, k) ==
  /\ o.s.keysObj[c][k].timeouts = keysObj[c][k].timeouts
  /\ o.s.keysObj[c][k].running = keysObj[c][k].running

\* C20: with combine true, a keydown of one key never cancels the press
\* timers of another key already held in the same listen call, and every
\* held key keeps emitting its own events whatever other keys are held: its
\* push at its physical push, its release at its keyup.
C20_CombineIndependent ==
  \A o \in Outcomes, c \in Calls, k \in MappedCodes :
     (EffCombine(c) /\ cfg[c].hasPress /\ status[c] = "bound"
      /\ InSeq(KEY_MAP[k], Keys(c)) /\ OnTop(c, k) /\ Attached(c))
     => /\ (o.type = "keydown" /\ o.k # k) => TimersKept(o, c, k)
        /\ (PhysicalPush(o, k) /\ ~Got(c, k))
           => Len(OfKind(Delivered(o.s.log, c, k), "push")) = 1
        /\ (o.type = "keyup" /\ o.k = k /\ Got(c, k))
           => Len(OfKind(Delivered(o.s.log, c, k), "release")) = 1

\* code j is another code tracked by call c that is held when code k is
\* pushed
OtherHeld(c, k, j) ==
  /\ j # k
  /\ InSeq(KEY_MAP[j], Keys(c))
  /\ InSeq(j, KEYCODES_PUSHED)

\* C21: with combine false in a call that has press stages, when a tracked
\* code k is pushed while another tracked code is held, the press timers of
\* the other codes are cancelled and the press stages of k are armed after
\* the push (so they fire while k is held), whatever the place of the call
\* among the listen calls of its instance.
C21_SoloPressKeeps ==
  \A o \in Outcomes, c \in Calls, k \in MappedCodes :
     (PhysicalPush(o, k) /\ ~EffCombine(c) /\ cfg[c].hasPress
      /\ status[c] = "bound" /\ InSeq(KEY_MAP[k], Keys(c))
      /\ OnTop(c, k) /\ Attached(c) /\ ~Got(c, k)
      /\ \E j \in MappedCodes : OtherHeld(c, k, j))
     => /\ \A j \in MappedCodes :
             OtherHeld(c, k, j)
             => /\ o.s.keysObj[c][j].timeouts = {}
                /\ o.s.keysObj[c][j].running = {}
        /\ o.s.keysObj[c][k].timeouts = DOMAIN cfg[c].press

\* C22: with combine false, a keydown of another code, which cancels the
\* press timers of a held code k of the call, delivers no release for k; a
\* release for k is delivered only by a keyup signal of k (raw, or the one
\* a blur produces), and the keyup of k that reaches the call after its
\* push delivers exactly one.
C22_SoloReleaseAtKeyUp ==
  \A o \in Outcomes, c \in Calls, k \in MappedCodes :
     (~EffCombine(c) /\ cfg[c].hasPress /\ InSeq(KEY_MAP[k], Keys(c)))
     => LET releases == OfKind(Delivered(o.s.log, c, k), "release")
        IN /\ (o.type = "keydown" /\ o.k # k) => releases = <<>>
           /\ releases # <<>>
              => \/ o.type = "keyup" /\ o.k = k
                 \/ o.type = "blur" /\ InSeq(k, KEYCODES_PUSHED)
           /\ (o.type = "keyup" /\ o.k = k /\ Got(c, k) /\ OnTop(c, k)
               /\ Attached(c))
              => Len(releases) = 1

\* the push events one operation delivered to call c, in order
Pushes(q, c) == SelectSeq(q, LAMBDA e : e.kind = "push" /\ e.c = c)

\* the codes of q follow the order in which the bridge's ledger holds them
OldestFirst(q) ==
  \A x, y \in DOMAIN q :
     x < y => IndexOf(KEYCODES_PUSHED, q[x].k) < IndexOf(KEYCODES_PUSHED, q[y].k)

\* C23: with combine true and a re-emit delay, when a call registered while
\* several of its keys were held, the re-emit timer of a key name, when it
\* fires, delivers to the call one push for every code of that name that
\* has been held since the registration and has not been pushed to the call
\* yet, the oldest pushed first.
C23_ReEmitEveryHeldKey ==
  \A o \in Outcomes, c \in Calls, k \in MappedCodes :
     (o.type = "reemit" /\ o.n = KEY_MAP[k] /\ OwnsTimer(c, k)
      /\ EffCombine(c) /\ Cardinality(heldSince[c]) > 1
      /\ k \in heldSince[c] /\ ~Got(c, k))
     => /\ Len(OfKind(Delivered(o.s.log, c, k), "push")) = 1
        /\ OldestFirst(Pushes(o.s.log, c))

\* the value of a boolean option that call c is given: by the listen call
\* itself, else by the creation of its instance ("unset" if by neither)
GivenBool(c, f) ==
  IF cfg[c][f] # "unset" THEN cfg[c][f] ELSE kbOpt[cfg[c].inst][f]

\* the reEmit value that call c is given, in the same way
GivenReEmit(c) ==
  IF cfg[c].reEmit.set THEN cfg[c].reEmit ELSE kbOpt[cfg[c].inst].reEmit

\* C24: a listen call uses the propagate, combine and reEmit values it
\* gives itself, else those given when its instance was created, falsy
\* values included: with propagate true it joins the topmost layer of each
\* of its key names, with propagate false it opens a new layer; it adds its
\* own keydown callback to the bridge exactly when combine is false; its
\* re-emit delay is the reEmit value, and a re-emit timer is armed for a
\* held key exactly when that value is not negative.
C24_OptionDefaults ==
  \A o \in Outcomes :
     (o.type = "listen" /\ ~o.s.thrown)
     => LET c == o.c
            i == cfg[c].inst
            gp == GivenBool(c, "propagate")
            gc == GivenBool(c, "combine")
            gr == GivenReEmit(c)
        IN /\ gp # "unset"
              => \A j \in 1..Len(Keys(c)) :
                   LET old == layers[i][Keys(c)[j]]
                       new == o.s.layers[i][Keys(c)[j]]
                   IN old # <<>>
                      => IF gp = "true"
                         THEN /\ Len(new) = Len(old)
                              /\ TopLayer(new) = Append(TopLayer(old), c)
                         ELSE new = Append(old, <<c>>)
           /\ gc # "unset"
              => (InSeq(AnyDown(c), o.s.keyDownCallbacks) <=> gc = "false")
           /\ gr.set
              => /\ EffReEmit(c) = gr.v
                 /\ \A j \in 1..Len(Keys(c)) :
                      HeldCodes(State, Keys(c)[j]) # <<>>
                      => (o.s.reEmitTimeoutIds[i][Keys(c)[j]] = "reg"
                          <=> gr.v >= 0)

\* a call that gives none of the three options is made on an instance
\* created with propagate false, combine false and reEmit 0, on a key that
\* is held and already has a layer
C24_Witness ==
  \E o \in Outcomes :
     /\ o.type = "listen" /\ ~o.s.thrown
     /\ cfg[o.c].propagate = "unset" /\ cfg[o.c].combine = "unset"
     /\ ~cfg[o.c].reEmit.set
     /\ kbOpt[cfg[o.c].inst] = KbOpt("false", Num(0), "false")
     /\ \E j \in 1..Len(Keys(o.c)) :
          /\ layers[cfg[o.c].inst][Keys(o.c)[j]] # <<>>
          /\ HeldCodes(State, Keys(o.c)[j]) # <<>>

\* C25: a value assigned to KEY_MAP, GROUPINGS or DEFAULT_PROPAGATE_VALUE
\* through the static field of one adapter is the value read through the
\* same field of every adapter, and a keyboard instance created without
\* options takes its key map, its groupings and its propagate default from
\* the values the static fields hold when it is created.
C25_StaticFields ==
  /\ \A a \in Adapters, b \in Adapters, conf \in Fields :
       \A val \in ConfValues(conf) :
          getStatic(setStatic(config, a, conf, val), b, conf) = val
  /\ \A a \in Adapters, i \in Insts :
       LET kb == createKeyboard(config, i)
       IN /\ kb.keyMap = getStatic(config, a, "KEY_MAP")
          /\ kb.groupings = getStatic(config, a, "GROUPINGS")
          /\ kb.defaultPropagate
               = Bool(getStatic(config, a, "DEFAULT_PROPAGATE_VALUE"))

\* call t has the arguments of call c but for the key names, which list the
\* members of the groupings that c names
ListTwin(c, t) ==
  /\ t # c
  /\ \E j \in 1..Len(cfg[c].keys) :
       cfg[c].keys[j] \in DOMAIN instances[cfg[c].inst].groupings
  /\ \A j \in 1..Len(cfg[t].keys) :
       cfg[t].keys[j] \notin DOMAIN instances[cfg[t].inst].groupings
  /\ [cfg[t] EXCEPT !.keys = cfg[c].keys] = cfg[c]
  /\ Keys(t) = cfg[t].keys

\* call t written as call c, wherever a state names a call
AsCall(x, c, t) == IF x = t THEN c ELSE x

\* state s2, reached by making call t, is state s1, reached by making call
\* c, with t in the place of c
SameRegistration(s1, s2, c, t) ==
  /\ s1.layers =
       [i \in Insts |-> [n \in Names |->
          [x \in 1..Len(s2.layers[i][n]) |->
             [y \in 1..Len(s2.layers[i][n][x]) |->
                AsCall(s2.layers[i][n][x][y], c, t)]]]]
  /\ s1.keyDownCallbacks =
       [x \in 1..Len(s2.keyDownCallbacks) |->
          IF s2.keyDownCallbacks[x] = AnyDown(t) THEN AnyDown(c)
          ELSE s2.keyDownCallbacks[x]]
  /\ s1.keyUpCallbacks = s2.keyUpCallbacks
  /\ s1.keysObj[c] = s2.keysObj[t]
  /\ s1.status[c] = s2.status[t]
  /\ s1.reEmitTimeoutIds = s2.reEmitTimeoutIds
  /\ s1.keyCodesMaintained = s2.keyCodesMaintained
  /\ s1.activePresses = s2.activePresses
  /\ s1.thrown = s2.thrown
  /\ Len(s1.log) = Len(s2.log)

\* C26: a listen call on a grouping name registers and dispatches as the
\* listen call on the list of the grouping's member key names: it tracks
\* the same codes, making it leaves the state that making the other call
\* leaves, and every key signal dispatched to it is one of a member key.
C26_GroupingAsList ==
  \A c \in Calls, t \in Calls :
     ListTwin(c, t)
     => /\ Keys(c) = Keys(t)
        /\ CodesOf(c) = CodesOf(t)
        /\ \A o \in Outcomes :
             /\ (o.type = "listen" /\ o.c = c)
                => SameRegistration(o.s, listen(State, t), c, t)
             /\ \A j \in 1..Len(Dispatched(o.s.log)) :
                  Dispatched(o.s.log)[j].c = c
                  => InSeq(KEY_MAP[Dispatched(o.s.log)[j].k], cfg[t].keys)

\* the call on the grouping name is made while a member key is held and
\* has a layer
C26_Witness ==
  \E o \in Outcomes, t \in Calls :
     /\ o.type = "listen" /\ ListTwin(o.c, t)
     /\ \E k \in MappedCodes :
          /\ InSeq(k, KEYCODES_PUSHED)
          /\ InSeq(KEY_MAP[k], cfg[t].keys)
          /\ layers[cfg[t].inst][KEY_MAP[k]] # <<>>

\* the instance that a listen, unsubscribe or close operation is made on
InstOf(o) == IF o.type = "close" THEN o.n ELSE cfg[o.c].inst

\* state s at the start of an operation
Fresh(s) == [s EXCEPT !.log = <<>>, !.thrown = FALSE]

\* the calls of instance j whose dispatch callback a keydown, or a keyup, of
\* code k invokes in state s, in order
Receivers(s, j, k, down) ==
  CallsOf(Dispatched((IF down THEN onKeyDown(Fresh(s), k)
                      ELSE onKeyUp(Fresh(s), k)).log),
          {x \in Calls : cfg[x].inst = j}, 1)

\* C27: a registration, an unregistration or a close() on one instance does
\* not change which callbacks of another instance a key signal invokes: for
\* every code, the callbacks of the other instance that its keydown and its
\* keyup invoke are the same before and after the operation.
C27_InstancesIndependent ==
  \A o \in Outcomes, j \in Insts, k \in MappedCodes, down \in BOOLEAN :
     (o.type \in {"listen", "unsubscribe", "close"} /\ InstOf(o) # j)
     => Receivers(o.s, j, k, down) = Receivers(State, j, k, down)

\* the handlers the adapter is to invoke for an event, in order
Expected(event) ==
  CASE event = "push" -> <<"onPush", "onDown", "onEvent">>
    [] event = "press" -> <<"onPress", "onDown", "onEvent">>
    [] event = "release" -> <<"onRelease", "onEvent">>

\* C28: in the named-callback adapter a push invokes onPush, onDown and
\* onEvent, a press onPress, onDown and onEvent, a release onRelease and
\* onEvent, and no other handler; a handler that was not given is skipped.
C28_NamedHandlers ==
  /\ \A event \in EventNames :
       onAdapterEvent(handlers, event)
         = SelectSeq(Expected(event), LAMBDA h : h \in handlers)
  /\ invoked.event \in EventNames
     => invoked.q = SelectSeq(Expected(invoked.event),
                              LAMBDA h : h \in handlers)

\* a push has reached a listen call that gave onPush and onEvent and no
\* onDown
C28_Witness ==
  /\ invoked.event = "push"
  /\ invoked.q = <<"onPush", "onEvent">>
  /\ "onDown" \notin handlers

\* C29: in the push-stream adapter, calling the function create() returned
\* with keys raises no error and returns the function that, called with an
\* observer, subscribes it to the events of those keys.
C29_ObserverFunction ==
  rx.made => ~rx.thrown /\ rx.value = "subscribe" /\ rx.keys \in KeyLists

\* the entries of a press array that have a numeric after or a numeric
\* interval
Usable(arr) ==
  SelectSeq(arr, LAMBDA e : e.after.set \/ e.interval.set)

\* C30: a press array that contains an entry with neither a numeric after
\* nor a numeric interval raises no error: the entry is dropped and every
\* remaining entry is kept as a press stage.
C30_InvalidStageDropped ==
  (pressIntervals.made /\ Usable(pressOpt) # pressOpt)
  => /\ ~pressIntervals.thrown
     /\ Len(pressIntervals.v) = Len(Usable(pressOpt))
     /\ \A j \in 1..Len(pressIntervals.v) :
          pressIntervals.v[j].after.set

\* the bridge callbacks one operation invoked, in order
Bridged(q) == [j \in 1..Len(OfKind(q, "bridge")) |-> OfKind(q, "bridge")[j].c]

\* the place of the callback of owner x in a callback list, 0 if it has none
PlaceOf(cbs, x) ==
  IF \E j \in 1..Len(cbs) : cbs[j].o = x
  THEN CHOOSE j \in 1..Len(cbs) : cbs[j].o = x
  ELSE 0

\* C31: for every raw keydown signal that the de-duplication does not drop,
\* each bridge down-callback that is registered when its turn comes is
\* invoked exactly once, in registration order, also when a callback invoked
\* earlier in the dispatch removes bridge callbacks: the callbacks that are
\* registered before and after the dispatch are each invoked once, none is
\* invoked twice, and the invocations follow the registration order
C31_BridgeDispatchOrder ==
  \A o \in Outcomes : \A k \in MappedCodes :
    PhysicalPush(o, k) =>
      LET B == Bridged(o.s.log)
      IN /\ \A j \in 1..Len(keyDownCallbacks) :
              InSeq(keyDownCallbacks[j], o.s.keyDownCallbacks)
                => Cardinality({x \in 1..Len(B) :
                                  B[x] = keyDownCallbacks[j].o}) = 1
         /\ \A x, y \in 1..Len(B) :
              x < y => /\ PlaceOf(keyDownCallbacks, B[x]) > 0
                       /\ PlaceOf(keyDownCallbacks, B[x])
                            < PlaceOf(keyDownCallbacks, B[y])

\* the places in what one operation did where the dispatch callback of call
\* x was invoked
Turns(q, x) ==
  {j \in 1..Len(q) : q[j].kind \in {"keydown", "keyup"} /\ q[j].c = x}

\* the Key Catcher of instance i was given the raw signal o
Given(o, i) == \E j \in 1..Len(o.s.log) :
                  o.s.log[j].kind = "bridge" /\ o.s.log[j].c = i

\* C32: during the dispatch of one signal in a Key Catcher, a callback that
\* a callback invoked earlier in the same dispatch has unregistered is not
\* invoked for that signal, and each callback of the dispatched layer that is
\* still in the topmost layer when its turn comes is invoked once
C32_DispatchSkipsUnregistered ==
  \A o \in Outcomes : \A k \in MappedCodes : \A i \in Insts :
    RawSignal(o, k) /\ Given(o, i) =>
      LET q == o.s.log
          L == TopLayer(layers[i][KEY_MAP[k]])
      IN /\ \A p \in 1..Len(q) :
              q[p].kind = "unbind" => \A j \in Turns(q, q[p].c) : j < p
         /\ \A j \in 1..Len(L) :
              /\ Cardinality(Turns(q, L[j])) <= 1
              /\ InSeq(L[j], TopLayer(o.s.layers[i][KEY_MAP[k]]))
                   => Cardinality(Turns(q, L[j])) = 1

\* the dispatch callbacks of instance i that one operation invoked, in order
TurnsOf(q, i) ==
  CallsOf(Dispatched(q), {x \in Calls : cfg[x].inst = i}, 1)

\* the places in what one operation did where a callback of instance i
\* called stopPropagation
Stops(q, i) ==
  {j \in 1..Len(q) : q[j].kind = "stop" /\ cfg[q[j].c].inst = i}

\* the callbacks of a layer in the order of their turns, most recent first
Backwards(L) == [j \in 1..Len(L) |-> L[Len(L) + 1 - j]]

\* C33: when a callback calls stopPropagation during a dispatch, no callback
\* registered earlier in the same layer is invoked for that signal and the
\* layer stacks are left unchanged; the next signal, as every signal during
\* which no callback calls stopPropagation, is dispatched to every callback
\* of the topmost layer
C33_StopPropagation ==
  \A o \in Outcomes : \A k \in MappedCodes : \A i \in Insts :
    RawSignal(o, k) /\ Given(o, i) =>
      LET q == o.s.log
          D == TurnsOf(q, i)
          L == Backwards(TopLayer(layers[i][KEY_MAP[k]]))
      IN IF Stops(q, i) = {}
         THEN D = L
         ELSE /\ Len(D) <= Len(L) /\ D = SubSeq(L, 1, Len(D))
              /\ \A p \in Stops(q, i) :
                   /\ q[p].c = D[Len(D)]
                   /\ \A j \in 1..Len(q) :
                        q[j].kind \in {"keydown", "keyup"} => j < p
              /\ o.s.layers = layers

\* the re-emit timer stored for key name n of instance i is pending
Pending(s, i, n) == s.reEmitTimeoutIds[i][n] \in {"reg", "unreg"}

\* C34: a Key Catcher has at most one pending re-emit timer per key name at
\* any time, the one whose id it stores: arming a timer for a key name, on
\* register or on unregister, first cancels the one still pending
C34_OneReEmitTimer ==
  /\ \A i \in Insts : \A n \in Names :
       /\ timers[i][n] <= 1
       /\ timers[i][n] = 1 <=> Pending(State, i, n)
  /\ \A o \in Outcomes : \A i \in Insts : \A n \in Names :
       o.s.timers[i][n] <= 1

\* a timer is pending for a key name when a listen call arms one for it,
\* and when an unsubscribe function arms one for it
C34_Witness ==
  \E i \in Insts : \E n \in Names :
    /\ Pending(State, i, n) /\ timers[i][n] = 1
    /\ \E o \in Outcomes :
         /\ o.type = "listen" /\ ~o.s.thrown
         /\ o.s.reEmitTimeoutIds[i][n] = "reg" /\ o.s.timers[i][n] = 1
    /\ \E o \in Outcomes :
         /\ o.type = "unsubscribe" /\ ~o.s.thrown
         /\ o.s.reEmitTimeoutIds[i][n] = "unreg" /\ o.s.timers[i][n] = 1

\* key state <<x, k>> has a press timeout pending or a repeat interval
\* running in state s
Armed(s, x, k) ==
  s.keysObj[x][k].timeouts # {} \/ s.keysObj[x][k].running # {}

\* the key states of key name n of instance i with press timers armed
ArmedOf(s, i, n) ==
  {p \in Calls \X MappedCodes :
     cfg[p[1]].inst = i /\ KEY_MAP[p[2]] = n /\ Armed(s, p[1], p[2])}

\* a listen call with propagate false leaves no press timer of the other
\* calls of its instance running for its key names
TimersCancelled ==
  \A o \in Outcomes :
    o.type = "listen" /\ ~EffPropagate(o.c) =>
      \A j \in 1..Len(Keys(o.c)) :
        \A p \in ArmedOf(o.s, cfg[o.c].inst, Keys(o.c)[j]) : p[1] = o.c

\* a press event is delivered to calls of the topmost layer only
ShadowedSilent ==
  \A o \in Outcomes : \A x \in Calls : \A k \in MappedCodes :
    o.type \in {"timeout", "interval"}
    /\ OfKind(Delivered(o.s.log, x, k), "press") # <<>>
      => OnTop(x, k)

\* activePresses holds exactly the key states with press timers armed
TableExact ==
  \A i \in Insts : \A n \in Names :
    /\ activePresses[i][n].kind # "num"
    /\ SeqSet(activePresses[i][n].arr) = ArmedOf(State, i, n)

\* C35: when a listen call with propagate false is made for a key name, every
\* press timeout and repeat interval that earlier listen calls of the same
\* instance have running for that key name is cancelled, so a shadowed
\* listener emits no press event while it is shadowed; the instance's
\* activePresses table holds, per key name, exactly the key states that
\* have press timers armed
C35_ShadowedPressCancelled == TimersCancelled /\ ShadowedSilent /\ TableExact

\* the codes for which the firing of the re-emit timer of key name n of
\* instance i dispatches a synthetic keydown
ReEmitted(i, n) ==
  LET q == Dispatched(reEmitTimeout(State, i, n).log)
  IN {q[j].k : j \in 1..Len(q)}

\* C36: when a re-emit timer of a Key Catcher fires, a synthetic keydown is
\* dispatched only for codes of that key name that have been held without
\* interruption since the timer was armed, and for none whose keyup has been
\* received in the meantime
C36_ReEmitOnlyHeld ==
  \A i \in Insts : \A n \in Names :
    CanReEmit(i, n) =>
      \A k \in ReEmitted(i, n) :
        /\ KEY_MAP[k] = n
        /\ InSeq(k, KEYCODES_PUSHED)
        /\ k \notin upSince[i][n]

\* no press stage of key state <<c, k>> has fired since its push: every
\* stage timeout armed at the push is still pending
FirstPressDue(c, k) ==
  /\ keysObj[c][k].isPushed
  /\ cfg[c].hasPress
  /\ keysObj[c][k].timeouts = DOMAIN cfg[c].press

\* C37: the press-stage counter of a tracked key restarts with each hold:
\* every push event carries pressInterval 0 and the first press event after
\* a push carries pressInterval 1
C37_CounterRestarts ==
  \A o \in Outcomes :
    /\ \A j \in 1..Len(o.s.log) :
         o.s.log[j].kind = "push" => o.s.log[j].n = 0
    /\ o.type = "timeout" /\ FirstPressDue(o.c, o.k)
         => Counters(Delivered(o.s.log, o.c, o.k)) = <<1>>

\* how many times callback cb is in a callback list of the bridge
Times(cbs, cb) == Cardinality({j \in 1..Len(cbs) : cbs[j] = cb})

\* the Key Catcher of instance i has its two callbacks registered with the
\* bridge exactly if one of its key names has a layer
Subscribed(s, i) ==
  LET want == IF NoLayers(s, i) THEN 0 ELSE 1
  IN /\ Times(s.keyDownCallbacks, KcDown(i)) = want
     /\ Times(s.keyUpCallbacks, KcUp(i)) = want

NoEmptyLayer(s, i) ==
  \A n \in Names : \A j \in 1..Len(s.layers[i][n]) : s.layers[i][n][j] # <<>>

\* C38: for any sequence of register and unregister calls on a Key Catcher,
\* its keydown and keyup callbacks are registered with the bridge exactly when
\* at least one key name has a non-empty layer stack, and no layer stack
\* contains an empty layer: every operation but close() keeps it so
C38_SubscribedWithLayers ==
  /\ \A i \in Insts : NoEmptyLayer(State, i)
  /\ \A o \in Outcomes : \A i \in Insts :
       o.type # "close" /\ Subscribed(State, i)
         => Subscribed(o.s, i) /\ NoEmptyLayer(o.s, i)

\* the unsubscribe function of the only call of kb1 can run, and the first
\* listen call of kb2 can be made
C38_Witness ==
  /\ ~NoLayers(State, "kb1") /\ Subscribed(State, "kb1")
  /\ NoLayers(State, "kb2") /\ Subscribed(State, "kb2")
  /\ \E o \in Outcomes :
       /\ o.type = "unsubscribe" /\ cfg[o.c].inst = "kb1"
       /\ NoLayers(o.s, "kb1")
       /\ Times(o.s.keyDownCallbacks, KcDown("kb1")) = 0
  /\ \E o \in Outcomes :
       /\ o.type = "listen" /\ cfg[o.c].inst = "kb2"
       /\ ~NoLayers(o.s, "kb2")
       /\ Times(o.s.keyDownCallbacks, KcDown("kb2")) = 1

\* the most recently pushed entry of the ledger, 0 if it is empty
LastPushed(s) ==
  IF Len(s.KEYCODES_PUSHED) = 0 THEN 0
  ELSE s.KEYCODES_PUSHED[Len(s.KEYCODES_PUSHED)]

C40_SortedByAfter ==
  pressIntervals.made
  => /\ ~pressIntervals.thrown
     /\ Len(pressIntervals.v) = Len(Usable(pressOpt))
     /\ \A j \in 1..(Len(pressIntervals.v) - 1) :
          pressIntervals.v[j].after.v <= pressIntervals.v[j + 1].after.v

====
